---- MODULE Spec2Model ----
(***************************************************************************)
(* TREC inspection report generator: the record extractor                  *)
(* (InspectionDataParser) and the form populator (TRECFormFiller) of       *)
(* report.py and working-1.py, as one state machine per run of             *)
(* generate_report.                                                        *)
(*                                                                         *)
(* Python strings are sequences of one-character strings, so that strip,   *)
(* slicing, startswith, substring tests and f-string formatting are        *)
(* computed and not assumed.  JSON leaves whose Python type decides the    *)
(* control flow (inspectionStatus, comment text, schedule date) are tagged *)
(* values [t |-> "str", s |-> ...], [t |-> "num", ...], [t |-> "null"] ... *)
(* A JSON mapping is a function whose DOMAIN is the set of keys present.   *)
(***************************************************************************)
EXTENDS Integers, Sequences, FiniteSets, TLC

VARIABLES
    variant,          \* which source file runs: "report" or "working1"
    data,             \* InspectionDataParser.data, the parsed JSON record
    tz,               \* UTC offset (seconds) of the local time zone
    template,         \* the template document read by PdfReader
    pc,               \* position inside generate_report
    returned,         \* return value of generate_report: "none", "True", "False"
    sections,         \* local `sections` of generate_report
    scalars,          \* locals client_name, inspection_date, property_address, inspector_name
    date_fallback,    \* TRUE iff inspection_date was set by a fallback assignment
    form_data,        \* dict handed to the scalar update call
    inspection_sections, \* candidate list built by _fill_inspection_matrix
    matrix_calls,     \* update calls issued by _fill_inspection_matrix, in order
    comments_to_fill, \* list built by _fill_inspection_details
    field_data,       \* dict handed to the text update calls
    widgets,          \* writer's widget annotations: field name -> [V, AS, ...]
    acroform,         \* writer's /AcroForm: [present, NeedAppearances]
    output,           \* the output file: "absent", "partial" or the written document
    parsed,           \* what the parser getters called so far returned or raised
    json_file,        \* inspection.json as main finds it: "missing", "invalid", "valid"
    main_pc,          \* position inside main ("none": generate_report is called directly)
    main_returned     \* return value of main: "none", "True", "False"

\* the state of the callers of generate_report
outer == <<parsed, json_file, main_pc, main_returned>>

vars == <<variant, data, tz, template, pc, returned, sections, scalars,
          date_fallback, form_data, inspection_sections, matrix_calls,
          comments_to_fill, field_data, widgets, acroform, output, outer>>

---------------------------------------------------------------------------
(* Python string primitives *)

Whitespace == {" ", "\t", "\n", "\r"}

RECURSIVE LStrip(_)
LStrip(s) ==
    IF s # <<>> /\ Head(s) \in Whitespace THEN LStrip(Tail(s)) ELSE s

RECURSIVE RStrip(_)
RStrip(s) ==
    IF s # <<>> /\ s[Len(s)] \in Whitespace
    THEN RStrip(SubSeq(s, 1, Len(s) - 1))
    ELSE s

\* str.strip()
Strip(s) == RStrip(LStrip(s))

\* s[:n]
Slice(s, n) == SubSeq(s, 1, IF Len(s) < n THEN Len(s) ELSE n)

\* s.startswith(p)
StartsWith(s, p) == Len(p) <= Len(s) /\ SubSeq(s, 1, Len(p)) = p

\* p in s
Contains(s, p) ==
    \E i \in 0..(Len(s) - Len(p)) : SubSeq(s, i + 1, i + Len(p)) = p

DigitChars == <<"0", "1", "2", "3", "4", "5", "6", "7", "8", "9">>

\* str(n) for n >= 0, as f"{n}" renders it
RECURSIVE IntToStr(_)
IntToStr(n) ==
    IF n < 10 THEN <<DigitChars[n + 1]>>
    ELSE IntToStr(n \div 10) \o <<DigitChars[(n % 10) + 1]>>

\* zero-padded decimal of width w, as strftime renders %m, %d and %Y
RECURSIVE ZeroPad(_, _)
ZeroPad(s, w) == IF Len(s) < w THEN ZeroPad(<<"0">> \o s, w) ELSE s

---------------------------------------------------------------------------
(* Tagged JSON / Python values *)

Str(s) == [t |-> "str", s |-> s]
Num(sec, ms) == [t |-> "num", sec |-> sec, ms |-> ms]  \* sec * 1000 + ms
Null == [t |-> "null"]
Bool(b) == [t |-> "bool", b |-> b]
List(n) == [t |-> "list", n |-> n]                     \* a list of n elements
OutOfRange == [t |-> "huge"]       \* a number beyond the platform's time_t / year 9999
NaN == [t |-> "nan"]

\* bool(v)
Truthy(v) ==
    CASE v.t = "str" -> v.s # <<>>
      [] v.t = "num" -> ~(v.sec = 0 /\ v.ms = 0)
      [] v.t = "null" -> FALSE
      [] v.t = "bool" -> v.b
      [] v.t = "list" -> v.n > 0
      [] v.t = "huge" -> TRUE
      [] v.t = "nan" -> TRUE

\* dict.get(key, default)
Get(d, k, default) == IF k \in DOMAIN d THEN d[k] ELSE default

EmptyDict == [k \in {} |-> 0]

---------------------------------------------------------------------------
(* String literals of the source *)

NameOfClient == <<"N", "a", "m", "e", " ", "o", "f", " ", "C", "l", "i", "e", "n", "t">>
DateOfInspection == <<"D", "a", "t", "e", " ", "o", "f", " ", "I", "n", "s", "p", "e", "c", "t", "i", "o", "n">>
AddressOfInspectedProperty == <<"A", "d", "d", "r", "e", "s", "s", " ", "o", "f", " ", "I", "n", "s", "p", "e", "c", "t", "e", "d", " ", "P", "r", "o", "p", "e", "r", "t", "y">>
NameOfInspector == <<"N", "a", "m", "e", " ", "o", "f", " ", "I", "n", "s", "p", "e", "c", "t", "o", "r">>
CheckBox1Prefix == <<"C", "h", "e", "c", "k", "B", "o", "x", "1", "[">>
TextWord == <<"T", "e", "x", "t">>
TextFieldPrefix == <<"T", "e", "x", "t", "F", "i", "e", "l", "d">>
FallbackDate == <<"0", "8", "/", "1", "3", "/", "2", "0", "2", "5">>
Ellipsis == <<".", ".", ".">>
Defect == <<"d", "e", "f", "e", "c", "t">>
StatusI == <<"I">>
StatusNI == <<"N", "I">>
StatusNP == <<"N", "P">>
StatusD == <<"D">>
Yes == <<"Y", "e", "s">>

\* f'CheckBox1[{index}]'
CheckBoxName(index) == CheckBox1Prefix \o IntToStr(index) \o <<"]">>

\* the slice bound of inspection_sections[:12]
MatrixLimit == 12
\* the number of checkbox columns per section (I, NI, NP, D): base_index = i * 4
MatrixStride == 4
\* the slice bound of comment[:500] and the threshold of len(comment) > 500
TruncLen == 500

---------------------------------------------------------------------------
(* datetime.fromtimestamp(date_timestamp / 1000).strftime('%m/%d/%Y') *)

\* proleptic Gregorian date of a day count since 1970-01-01
CivilFromDays(days) ==
    LET z == days + 719468
        era == z \div 146097
        doe == z - era * 146097
        yoe == (doe - doe \div 1460 + doe \div 36524 - doe \div 146096) \div 365
        doy == doe - (365 * yoe + yoe \div 4 - yoe \div 100)
        mp == (5 * doy + 2) \div 153
        d == doy - (153 * mp + 2) \div 5 + 1
        m == IF mp < 10 THEN mp + 3 ELSE mp - 9
        y == yoe + era * 400 + (IF m <= 2 THEN 1 ELSE 0)
    IN  [year |-> y, month |-> m, day |-> d]

\* strftime('%m/%d/%Y')
Strftime(date) ==
    ZeroPad(IntToStr(date.month), 2) \o <<"/">> \o
    ZeroPad(IntToStr(date.day), 2) \o <<"/">> \o
    ZeroPad(IntToStr(date.year), 4)

\* the operand types and values on which date_timestamp / 1000 or
\* datetime.fromtimestamp raises (TypeError, ValueError, OverflowError, OSError)
ConversionRaises(v) == v.t \in {"str", "list", "null", "huge", "nan"}

\* whole seconds of date_timestamp / 1000 (True / 1000 is 0.001, False / 1000 is 0.0)
EpochSeconds(v) == IF v.t = "num" THEN v.sec ELSE 0

\* the local calendar date of a convertible timestamp, rendered
FormatTimestamp(v, offset) ==
    Strftime(CivilFromDays((EpochSeconds(v) + offset) \div 86400))

---------------------------------------------------------------------------
(* InspectionDataParser *)

get_property_info(d) ==
    LET inspection == Get(d, "inspection", EmptyDict)
        address == Get(inspection, "address", EmptyDict)
    IN  [street |-> Get(address, "street", <<>>),
         city |-> Get(address, "city", <<>>),
         state |-> Get(address, "state", <<>>),
         zipcode |-> Get(address, "zipcode", <<>>),
         full_address |-> Get(address, "fullAddress", <<>>),
         square_footage |-> Get(Get(address, "propertyInfo", EmptyDict), "squareFootage", <<>>)]

get_client_info(d) ==
    LET inspection == Get(d, "inspection", EmptyDict)
        client == Get(inspection, "clientInfo", EmptyDict)
    IN  [name |-> Get(client, "name", <<>>),
         email |-> Get(client, "email", <<>>),
         phone |-> Get(client, "phone", <<>>),
         user_type |-> Get(client, "userType", <<>>)]

get_inspector_info(d) ==
    LET inspection == Get(d, "inspection", EmptyDict)
        inspector == Get(inspection, "inspector", EmptyDict)
    IN  [id |-> Get(inspector, "id", <<>>),
         name |-> Get(inspector, "name", <<>>),
         email |-> Get(inspector, "email", <<>>),
         phone |-> Get(inspector, "phone", <<>>)]

get_inspection_schedule(d) ==
    LET inspection == Get(d, "inspection", EmptyDict)
        schedule == Get(inspection, "schedule", EmptyDict)
    IN  [date |-> Get(schedule, "date", Str(<<>>)),
         start_time |-> Get(schedule, "startTime", <<>>),
         end_time |-> Get(schedule, "endTime", <<>>)]

\* the comment_data dict built for one raw comment
ParseComment(comment) ==
    [id |-> Get(comment, "id", <<>>),
     text |-> Get(comment, "text", Str(<<>>)),
     type |-> Get(comment, "type", <<>>),
     location |-> Get(comment, "location", <<>>),
     label |-> Get(comment, "label", <<>>),
     is_selected |-> Get(comment, "isSelected", FALSE),
     is_flagged |-> Get(comment, "isFlagged", FALSE),
     comment_number |-> Get(comment, "commentNumber", <<>>),
     photos |-> Get(comment, "photos", <<>>),
     videos |-> Get(comment, "videos", <<>>)]

\* mutant: a line item without isDeficient counts as deficient
ParseLineItem_DeficientByDefault(line_item) ==
    LET comments == Get(line_item, "comments", <<>>)
    IN  [id |-> Get(line_item, "id", <<>>),
         name |-> Get(line_item, "name", <<>>),
         title |-> Get(line_item, "title", <<>>),
         order |-> Get(line_item, "order", 0),
         inspection_status |-> Get(line_item, "inspectionStatus", Str(<<>>)),
         is_deficient |-> Get(line_item, "isDeficient", TRUE),
         comments |-> [k \in 1..Len(comments) |-> ParseComment(comments[k])]]

\* the line_item_data dict built for one raw line item
ParseLineItem(line_item) ==
    LET comments == Get(line_item, "comments", <<>>)
    IN  [id |-> Get(line_item, "id", <<>>),
         name |-> Get(line_item, "name", <<>>),
         title |-> Get(line_item, "title", <<>>),
         order |-> Get(line_item, "order", 0),
         inspection_status |-> Get(line_item, "inspectionStatus", Str(<<>>)),
         is_deficient |-> Get(line_item, "isDeficient", FALSE),
         comments |-> [k \in 1..Len(comments) |-> ParseComment(comments[k])]]

\* the section_data dict built for one raw section
ParseSection(section) ==
    LET line_items == Get(section, "lineItems", <<>>)
    IN  [id |-> Get(section, "id", <<>>),
         name |-> Get(section, "name", <<>>),
         order |-> Get(section, "order", 0),
         section_number |-> Get(section, "sectionNumber", <<>>),
         line_items |-> [j \in 1..Len(line_items) |-> ParseLineItem(line_items[j])]]

\* mutant: the sections are returned sorted by their 'order'
get_sections_SortedByOrder(d) ==
    LET inspection == Get(d, "inspection", EmptyDict)
        raw == Get(inspection, "sections", <<>>)
        key(i) == Get(raw[i], "order", 0)
        rank(i) == 1 + Cardinality({j \in 1..Len(raw) :
                                      key(j) < key(i) \/ (key(j) = key(i) /\ j < i)})
    IN  [r \in 1..Len(raw) |-> ParseSection(raw[CHOOSE i \in 1..Len(raw) : rank(i) = r])]

get_sections(d) ==
    LET inspection == Get(d, "inspection", EmptyDict)
        raw == Get(inspection, "sections", <<>>)
    IN  [i \in 1..Len(raw) |-> ParseSection(raw[i])]

---------------------------------------------------------------------------
(* The template document and the writer's copy of it *)

\* form_fields.keys(): the catalog's field names, in catalog order
FieldNames(tpl) == [k \in 1..Len(tpl.fields) |-> tpl.fields[k].name]

\* name in form_fields
InFormFields(tpl, name) == \E k \in 1..Len(tpl.fields) : tpl.fields[k].name = name

\* a dict with no entry
NoData == [k \in {} |-> 0]

\* str(value), as NameObject(value) and TextStringObject(value) hold it
PyStr(value) ==
    CASE value.t = "str" -> value.s
      [] value.t = "bool" -> IF value.b THEN <<"T", "r", "u", "e">>
                                        ELSE <<"F", "a", "l", "s", "e">>

\* writer.update_page_form_field_values(writer.pages[page], fields):
\* every widget of that page whose /T is a key of fields gets /V (and a
\* button also /AS) set from the value
update_page_form_field_values(w, page, fields) ==
    [name \in DOMAIN w |->
        IF w[name].page = page /\ name \in DOMAIN fields
        THEN [w[name] EXCEPT
                !.V = PyStr(fields[name]),
                !.AS = IF w[name].FT = "/Btn" THEN PyStr(fields[name]) ELSE @]
        ELSE w[name]]

\* the same call on each page of a list of pages, in order
RECURSIVE UpdatePages(_, _, _)
UpdatePages(w, pages, fields) ==
    IF pages = <<>> THEN w
    ELSE UpdatePages(update_page_form_field_values(w, Head(pages), fields),
                     Tail(pages), fields)

---------------------------------------------------------------------------
(* generate_report: date derivation and scalar fill *)

\* mutant: the conversion is not guarded by try/except
DeriveInspectionDate_NoTry(date_timestamp, offset) ==
    IF Truthy(date_timestamp)
    THEN IF ConversionRaises(date_timestamp)
         THEN [date |-> <<>>, fallback |-> FALSE, raised |-> TRUE]
         ELSE [date |-> FormatTimestamp(date_timestamp, offset),
               fallback |-> FALSE, raised |-> FALSE]
    ELSE [date |-> FallbackDate, fallback |-> TRUE, raised |-> FALSE]

\* mutant: without a timestamp the date is left empty
DeriveInspectionDate_NoFallback(date_timestamp, offset) ==
    IF Truthy(date_timestamp)
    THEN IF ConversionRaises(date_timestamp)
         THEN [date |-> FallbackDate, fallback |-> TRUE, raised |-> FALSE]
         ELSE [date |-> FormatTimestamp(date_timestamp, offset),
               fallback |-> FALSE, raised |-> FALSE]
    ELSE [date |-> <<>>, fallback |-> TRUE, raised |-> FALSE]

\* inspection_date, whether a fallback assignment produced it, and whether
\* an exception left the block (the bare except lets none out)
DeriveInspectionDate(date_timestamp, offset) ==
    IF Truthy(date_timestamp)
    THEN IF ConversionRaises(date_timestamp)
         THEN [date |-> FallbackDate, fallback |-> TRUE, raised |-> FALSE]
         ELSE [date |-> FormatTimestamp(date_timestamp, offset),
               fallback |-> FALSE, raised |-> FALSE]
    ELSE [date |-> FallbackDate, fallback |-> TRUE, raised |-> FALSE]

\* form_data: the four known scalar fields
ScalarEntries(sc) ==
    <<[name |-> NameOfClient, value |-> sc.client_name],
      [name |-> DateOfInspection, value |-> sc.inspection_date],
      [name |-> AddressOfInspectedProperty, value |-> sc.property_address],
      [name |-> NameOfInspector, value |-> sc.inspector_name]>>

\* mutant: an empty value is written too
BuildFormData_NoValueTest(tpl, sc) ==
    LET entries == ScalarEntries(sc)
        chosen == {k \in 1..Len(entries) : InFormFields(tpl, entries[k].name)}
    IN  [name \in {entries[k].name : k \in chosen} |->
           Str(entries[CHOOSE k \in chosen : entries[k].name = name].value)]

BuildFormData(tpl, sc) ==
    LET entries == ScalarEntries(sc)
        chosen == {k \in 1..Len(entries) :
                     InFormFields(tpl, entries[k].name) /\ entries[k].value # <<>>}
    IN  [name \in {entries[k].name : k \in chosen} |->
           Str(entries[CHOOSE k \in chosen : entries[k].name = name].value)]

---------------------------------------------------------------------------
(* _fill_inspection_matrix *)

\* `status and status.strip()` raises AttributeError on a truthy non-string
StatusCheckRaises(status) == Truthy(status) /\ status.t # "str"

\* `status and status.strip()` as a condition
HasStatus(status) == Truthy(status) /\ Truthy(Str(Strip(status.s)))

\* mutant: the status of any line item admits the section
SectionQualifies_AnyItem(section) ==
    \E j \in 1..Len(section.line_items) : HasStatus(section.line_items[j].inspection_status)

\* mutant: a section whose status is no recognised code is left out of the list
SectionQualifies_RecognisedOnly(section) ==
    /\ section.line_items # <<>>
    /\ HasStatus(section.line_items[1].inspection_status)
    /\ section.line_items[1].inspection_status.s \in {StatusI, StatusNI, StatusNP, StatusD}

\* the first loop's test: the section has line items and its first one a status
SectionQualifies(section) ==
    /\ section.line_items # <<>>
    /\ HasStatus(section.line_items[1].inspection_status)

\* the dict appended to inspection_sections
SectionEntry(section) ==
    [name |-> section.name,
     status |-> section.line_items[1].inspection_status,
     deficient |-> section.line_items[1].is_deficient]

\* the first loop raises on some section
CollectRaises(secs) ==
    \E k \in 1..Len(secs) :
        /\ secs[k].line_items # <<>>
        /\ StatusCheckRaises(secs[k].line_items[1].inspection_status)

\* the first loop: sections that have an actual inspection status, in order
RECURSIVE CollectInspectionSections(_)
CollectInspectionSections(secs) ==
    IF secs = <<>> THEN <<>>
    ELSE (IF SectionQualifies(Head(secs)) THEN <<SectionEntry(Head(secs))>> ELSE <<>>)
         \o CollectInspectionSections(Tail(secs))

\* mutant: the slice is missing
LimitedSections_NoLimit(insp) == insp

\* inspection_sections[:12]
LimitedSections(insp) == Slice(insp, MatrixLimit)

\* mutant: the NI and NP columns are swapped
CheckboxDataReport_SwappedColumns(tpl, i, status) ==
    LET base_index == i * MatrixStride
    IN  IF status = StatusI /\ InFormFields(tpl, CheckBoxName(base_index))
        THEN CheckBoxName(base_index) :> Bool(TRUE)
        ELSE IF status = StatusNP /\ InFormFields(tpl, CheckBoxName(base_index + 1))
        THEN CheckBoxName(base_index + 1) :> Bool(TRUE)
        ELSE IF status = StatusNI /\ InFormFields(tpl, CheckBoxName(base_index + 2))
        THEN CheckBoxName(base_index + 2) :> Bool(TRUE)
        ELSE IF status = StatusD /\ InFormFields(tpl, CheckBoxName(base_index + 3))
        THEN CheckBoxName(base_index + 3) :> Bool(TRUE)
        ELSE NoData

\* mutant: the catalog is not consulted
CheckboxDataReport_NoCatalogTest(tpl, i, status) ==
    LET base_index == i * MatrixStride
    IN  IF status = StatusI THEN CheckBoxName(base_index) :> Bool(TRUE)
        ELSE IF status = StatusNI THEN CheckBoxName(base_index + 1) :> Bool(TRUE)
        ELSE IF status = StatusNP THEN CheckBoxName(base_index + 2) :> Bool(TRUE)
        ELSE IF status = StatusD THEN CheckBoxName(base_index + 3) :> Bool(TRUE)
        ELSE NoData

\* report.py: checkbox_data of the section at position i (0-based)
CheckboxDataReport(tpl, i, status) ==
    LET base_index == i * MatrixStride
    IN  IF status = StatusI /\ InFormFields(tpl, CheckBoxName(base_index))
        THEN CheckBoxName(base_index) :> Bool(TRUE)
        ELSE IF status = StatusNI /\ InFormFields(tpl, CheckBoxName(base_index + 1))
        THEN CheckBoxName(base_index + 1) :> Bool(TRUE)
        ELSE IF status = StatusNP /\ InFormFields(tpl, CheckBoxName(base_index + 2))
        THEN CheckBoxName(base_index + 2) :> Bool(TRUE)
        ELSE IF status = StatusD /\ InFormFields(tpl, CheckBoxName(base_index + 3))
        THEN CheckBoxName(base_index + 3) :> Bool(TRUE)
        ELSE NoData

\* working-1.py: target_checkbox_index, -1 standing for None
TargetCheckboxIndex(i, status) ==
    LET base_index == i * MatrixStride
    IN  IF status = StatusI THEN base_index
        ELSE IF status = StatusNI THEN base_index + 1
        ELSE IF status = StatusNP THEN base_index + 2
        ELSE IF status = StatusD THEN base_index + 3
        ELSE -1

\* working-1.py: the exact name, then every catalog name that contains it
TargetFieldPatterns(tpl, index) ==
    <<CheckBoxName(index)>> \o
    SelectSeq(FieldNames(tpl), LAMBDA f : Contains(f, CheckBoxName(index)))

\* working-1.py: checkbox_data of the section at position i: the first
\* pattern found in form_fields, with the first value of checkbox_values_to_try
CheckboxDataWorking(tpl, i, status) ==
    LET index == TargetCheckboxIndex(i, status)
        patterns == IF index = -1 THEN <<>> ELSE TargetFieldPatterns(tpl, index)
        found == SelectSeq(patterns, LAMBDA f : InFormFields(tpl, f))
    IN  IF found = <<>> THEN NoData ELSE Head(found) :> Str(Yes)

CheckboxData(v, tpl, i, status) ==
    IF v = "report" THEN CheckboxDataReport(tpl, i, status)
    ELSE CheckboxDataWorking(tpl, i, status)

\* the pages the matrix update is issued on: report.py page 1 (page 0 of a
\* one-page document), working-1.py every page
MatrixPages(v, tpl) ==
    IF v = "report" THEN <<IF tpl.numPages > 1 THEN 1 ELSE 0>>
    ELSE [k \in 1..tpl.numPages |-> k - 1]

\* working-1.py _set_checkbox_appearance_state on one page: /V and /AS of
\* the button widgets named in checkbox_data become '/' + value
set_checkbox_appearance_state(w, page, checkbox_data) ==
    [name \in DOMAIN w |->
        IF w[name].page = page /\ w[name].FT = "/Btn" /\ name \in DOMAIN checkbox_data
        THEN [w[name] EXCEPT !.V = <<"/">> \o PyStr(checkbox_data[name]),
                             !.AS = <<"/">> \o PyStr(checkbox_data[name])]
        ELSE w[name]]

RECURSIVE MatrixUpdatePages(_, _, _, _)
MatrixUpdatePages(v, w, pages, checkbox_data) ==
    IF pages = <<>> THEN w
    ELSE LET updated == update_page_form_field_values(w, Head(pages), checkbox_data)
             stated == IF v = "report" THEN updated
                       ELSE set_checkbox_appearance_state(updated, Head(pages), checkbox_data)
         IN  MatrixUpdatePages(v, stated, Tail(pages), checkbox_data)

\* the second loop over inspection_sections[:12], from position i on:
\* acc = [calls, widgets]
RECURSIVE MatrixLoop(_, _, _, _, _)
MatrixLoop(v, tpl, entries, i, acc) ==
    IF i >= Len(entries) THEN acc
    ELSE LET checkbox_data == CheckboxData(v, tpl, i, entries[i + 1].status.s)
             pages == MatrixPages(v, tpl)
             next == IF checkbox_data = NoData THEN acc
                     ELSE [calls |-> acc.calls \o
                                     [k \in 1..Len(pages) |->
                                        [i |-> i, page |-> pages[k], data |-> checkbox_data]],
                           widgets |-> MatrixUpdatePages(v, acc.widgets, pages, checkbox_data)]
         IN  MatrixLoop(v, tpl, entries, i + 1, next)

\* the whole method: an exception of the first loop is caught by the
\* method's own handler before any checkbox is written
fill_inspection_matrix(v, tpl, secs, w) ==
    IF CollectRaises(secs)
    THEN [raised |-> TRUE, inspection_sections |-> <<>>, calls |-> <<>>, widgets |-> w]
    ELSE LET insp == CollectInspectionSections(secs)
             done == MatrixLoop(v, tpl, LimitedSections(insp), 0,
                                [calls |-> <<>>, widgets |-> w])
         IN  [raised |-> FALSE, inspection_sections |-> insp,
              calls |-> done.calls, widgets |-> done.widgets]

---------------------------------------------------------------------------
(* _fill_inspection_details *)

\* mutant: the reserved TextField names are not excluded
IsTextField_NoExclusion(field) == Contains(field, TextWord)

\* mutant: every field of the catalog counts as a text field
IsTextField_AnyField(field) == field = field

\* the filter of the text_fields list comprehension
IsTextField(field) == Contains(field, TextWord) /\ ~StartsWith(field, TextFieldPrefix)

\* text_fields: the catalog's free-text fields, in catalog order
TextFields(tpl) == SelectSeq(FieldNames(tpl), IsTextField)

\* comment.get('text', '').strip() raises AttributeError on a non-string
CommentRaises(comment) == comment.text.t # "str"

\* mutant: the parenthetical is appended whatever the location
FormatComment_AlwaysParen(section_name, location, comment_text) ==
    section_name \o <<" ", "(">> \o location \o <<")">> \o <<":", " ">> \o comment_text

\* formatted_comment: f"{section_name}", " ({location})" if location, ": {comment_text}"
FormatComment(section_name, location, comment_text) ==
    section_name
    \o (IF location # <<>> THEN <<" ", "(">> \o location \o <<")">> ELSE <<>>)
    \o <<":", " ">> \o comment_text

\* mutant: a 'defect' comment is appended whatever its text
CommentEntry_DefectAlways(section_name, comment) ==
    LET comment_text == Strip(comment.text.s)
    IN  IF comment_text = <<>> /\ comment.type # Defect THEN <<>>
        ELSE <<[formatted |-> FormatComment(section_name, comment.location, comment_text),
                deficiency |-> comment.type = Defect]>>

\* what one comment appends: nothing when its stripped text is empty, else
\* its formatted text, tagged with the list it is appended to
CommentEntry(section_name, comment) ==
    LET comment_text == Strip(comment.text.s)
    IN  IF comment_text = <<>> THEN <<>>
        ELSE <<[formatted |-> FormatComment(section_name, comment.location, comment_text),
                deficiency |-> comment.type = Defect]>>

RECURSIVE CommentsOfLineItem(_, _)
CommentsOfLineItem(section_name, comments) ==
    IF comments = <<>> THEN <<>>
    ELSE CommentEntry(section_name, Head(comments))
         \o CommentsOfLineItem(section_name, Tail(comments))

RECURSIVE CommentsOfSection(_, _)
CommentsOfSection(section_name, line_items) ==
    IF line_items = <<>> THEN <<>>
    ELSE CommentsOfLineItem(section_name, Head(line_items).comments)
         \o CommentsOfSection(section_name, Tail(line_items))

\* every appended comment, in the order the nested loops reach it
RECURSIVE CollectComments(_)
CollectComments(secs) ==
    IF secs = <<>> THEN <<>>
    ELSE CommentsOfSection(Head(secs).name, Head(secs).line_items)
         \o CollectComments(Tail(secs))

\* the nested loops raise on some comment
DetailsRaises(secs) ==
    \E i \in 1..Len(secs) : \E j \in 1..Len(secs[i].line_items) :
        \E k \in 1..Len(secs[i].line_items[j].comments) :
            CommentRaises(secs[i].line_items[j].comments[k])

Formatted(entries) == [k \in 1..Len(entries) |-> entries[k].formatted]

\* deficiency_comments
DeficiencyComments(secs) ==
    Formatted(SelectSeq(CollectComments(secs), LAMBDA e : e.deficiency))

\* all_comments
AllComments(secs) ==
    Formatted(SelectSeq(CollectComments(secs), LAMBDA e : ~e.deficiency))

\* mutant: the two lists are concatenated the other way round
CommentsToFill_GeneralFirst(secs) == AllComments(secs) \o DeficiencyComments(secs)

\* comments_to_fill = deficiency_comments + all_comments
CommentsToFill(secs) == DeficiencyComments(secs) \o AllComments(secs)

\* mutant: a comment of exactly 500 characters is cut too
Truncate_Inclusive(comment) ==
    IF Len(comment) >= TruncLen THEN Slice(comment, TruncLen) \o Ellipsis ELSE comment

\* comment[:500] + "..." if len(comment) > 500 else comment
Truncate(comment) ==
    IF Len(comment) > TruncLen THEN Slice(comment, TruncLen) \o Ellipsis ELSE comment

\* field_data: comments_to_fill[:len(text_fields)] zipped onto text_fields
BuildFieldData(text_fields, comments) ==
    LET taken == Slice(comments, Len(text_fields))
    IN  [name \in {text_fields[i] : i \in 1..Len(taken)} |->
           Str(Truncate(taken[CHOOSE i \in 1..Len(taken) : text_fields[i] = name]))]

\* the whole method: an exception of the nested loops is caught by the
\* method's own handler before any field is written
fill_inspection_details(tpl, secs, w) ==
    IF DetailsRaises(secs)
    THEN [raised |-> TRUE, comments_to_fill |-> <<>>, field_data |-> NoData, widgets |-> w]
    ELSE LET comments == CommentsToFill(secs)
             fd == BuildFieldData(TextFields(tpl), comments)
         IN  [raised |-> FALSE, comments_to_fill |-> comments, field_data |-> fd,
              widgets |-> IF fd = NoData THEN w
                          ELSE UpdatePages(w, [k \in 1..tpl.numPages |-> k - 1], fd)]

---------------------------------------------------------------------------
(* Inputs: inspection records *)

Roof == <<"R", "o", "o", "f">>
NorthSlope == <<"N", "o", "r", "t", "h", " ", "s", "l", "o", "p", "e">>
MissingShingles == <<"m", "i", "s", "s", "i", "n", "g", " ", "s", "h", "i", "n", "g", "l", "e", "s">>
SectionA == <<"S", "e", "c", "t", "i", "o", "n", "A">>
SectionB == <<"S", "e", "c", "t", "i", "o", "n", "B">>
CrackedTile == <<"c", "r", "a", "c", "k", "e", "d", " ", "t", "i", "l", "e">>
Walls == <<"W", "a", "l", "l", "s">>
Attic == <<"A", "t", "t", "i", "c">>
Doors == <<"D", "o", "o", "r", "s">>
Pool == <<"P", "o", "o", "l">>
Pad == <<"P", "a", "d">>
Edge == <<"E", "d", "g", "e">>
Hall == <<"H", "a", "l", "l">>
G1 == <<"G", "1">>
D1 == <<"D", "1">>
G2 == <<"G", "2">>
Ann == <<"A", "n", "n">>
OneElm == <<"1", " ", "E", "l", "m">>
Bo == <<"B", "o">>
Abc == <<"a", "b", "c">>
Info == <<"i", "n", "f", "o">>

\* a text of n characters, no two neighbours equal
LongText(n) == [i \in 1..n |-> DigitChars[((i - 1) % 10) + 1]]

Cm(text, type, location) == [text |-> Str(text), type |-> type, location |-> location]
Li(status, deficient, comments) ==
    [inspectionStatus |-> Str(status), isDeficient |-> deficient, comments |-> comments]
Sc(name, order, line_items) == [name |-> name, order |-> order, lineItems |-> line_items]

\* raw sections the records are made of
SectionPool ==
    <<Sc(Roof, 3, <<Li(StatusI, FALSE, <<Cm(MissingShingles, Info, NorthSlope),
                                          Cm(MissingShingles, Info, <<>>)>>)>>),
      Sc(SectionA, 1, <<Li(StatusD, TRUE, <<Cm(CrackedTile, Defect, <<>>)>>)>>),
      Sc(SectionB, 2, <<>>),
      Sc(Walls, 9, <<Li(StatusNI, FALSE,
                        <<Cm(<<" ">> \o G1 \o <<"\n">>, Info, <<>>),
                          Cm(D1, Defect, Hall),
                          Cm(G2, <<>>, <<>>)>>),
                     Li(StatusD, TRUE, <<>>)>>),
      Sc(Attic, 0, <<Li(<<" ", "\t">>, FALSE, <<>>),
                     Li(StatusI, FALSE, <<Cm(Roof, Defect, <<>>)>>)>>),
      Sc(Doors, 5, <<Li(StatusNP, FALSE, <<Cm(<<" ", " ">>, Defect, Hall)>>)>>),
      Sc(Pool, 4, <<Li(<<"X">>, FALSE, <<Cm(LongText(600), <<>>, <<>>)>>)>>),
      [name |-> Hall],
      Sc(Pad, 7, <<[comments |-> <<Cm(LongText(TruncLen - 5), Defect, <<>>)>>],
                   Li(StatusNP, FALSE, <<>>)>>),
      Sc(Edge, 8, <<Li(<<" ", "I">>, FALSE, <<Cm(LongText(TruncLen - 5), Info, <<>>)>>)>>)>>

NShapes == Len(SectionPool)

\* the largest number of sections of a record
MaxSections == 14
\* the largest step between the pool positions of neighbouring sections
MaxStride == 1

\* the record's sections: n of them, section k being pool entry b + a * (k - 1)
RawSections(n, a, b) ==
    [k \in 1..n |-> SectionPool[((b + a * (k - 1)) % NShapes) + 1]]

\* clientInfo, address and inspector, or none of them
Header(present) ==
    IF present
    THEN [clientInfo |-> [name |-> Ann], address |-> [fullAddress |-> OneElm],
          inspector |-> [name |-> Bo]]
    ELSE [clientInfo |-> [name |-> <<>>], inspector |-> EmptyDict]

\* values of schedule.date
DatePool ==
    <<Num(1755043200, 0), Str(<<>>), Num(0, 0), Null, Bool(FALSE), List(0),
      Num(1755129599, 999), Num(-1, 0), Num(0, 500), Num(951782400, 0),
      Bool(TRUE), Str(Abc), List(2), OutOfRange, NaN>>

\* the record's schedule: no schedule, a schedule without date, or one with a date
SchedulePool ==
    <<[x \in {"schedule"} |-> [date |-> DatePool[1]]],
      EmptyDict,
      [x \in {"schedule"} |-> [startTime |-> Abc]]>>
    \o [k \in 1..(Len(DatePool) - 1) |-> [x \in {"schedule"} |-> [date |-> DatePool[k + 1]]]]

\* local time zones: UTC, US Central, India
TzPool == <<0, -21600, 19800>>

\* merge of two mappings with disjoint keys
Merge(f, g) == [k \in (DOMAIN f) \cup (DOMAIN g) |-> IF k \in DOMAIN f THEN f[k] ELSE g[k]]

Record(header, schedule, n, a, b) ==
    [x \in {"inspection"} |->
        Merge(Merge(Header(header), SchedulePool[schedule]),
              [y \in {"sections"} |-> RawSections(n, a, b)])]

---------------------------------------------------------------------------
(* Inputs: templates *)

Text1 == <<"T", "e", "x", "t", "1">>
TextField1 == <<"T", "e", "x", "t", "F", "i", "e", "l", "d", "1", "[", "0", "]">>
CommentText2 == <<"C", "o", "m", "m", "e", "n", "t", "T", "e", "x", "t", "2">>
Text3 == <<"T", "e", "x", "t", "3">>
Signature == <<"S", "i", "g", "n", "a", "t", "u", "r", "e">>

\* names of the catalog's text-like fields, in catalog order
TextNamePool == <<Text1, TextField1, CommentText2, Text3>>

\* the largest number of CheckBox1[n] fields of a template
MaxChecks == 52
\* the largest number of pages of a template
MaxPages == 3

SlashOff == <<"/", "O", "f", "f">>
SlashYes == <<"/", "Y", "e", "s">>
SlashOn == <<"/", "O", "n">>

\* a field of the catalog and its widget: /T, /FT, the page the widget lies
\* on, the keys of its normal appearance catalog /AP /N (none: {}) and the
\* value /V the template holds for it (none: NoValue)
Field(name, ft, page) ==
    [name |-> name, FT |-> ft, page |-> page, AP |-> {}, V |-> <<>>]

\* the appearance catalogs of the checkboxes: the checked state is /Yes on
\* some, /On on others, and some define no appearance catalog
AppearanceKeys(index) ==
    CASE index % 3 = 0 -> {SlashOff, SlashYes}
      [] index % 3 = 1 -> {SlashOff, SlashOn}
      [] OTHER -> {}

CheckBoxField(index, page) ==
    [Field(CheckBoxName(index), "/Btn", page) EXCEPT !.AP = AppearanceKeys(index)]

\* a catalog: the scalar fields on the first page, then CheckBox1[0..nCheck-1]
\* and the first nText text-like fields on the last page
Catalog(withScalars, nCheck, nText, numPages) ==
    (IF withScalars
     THEN <<Field(NameOfClient, "/Tx", 0), Field(DateOfInspection, "/Tx", 0),
            Field(Signature, "/Sig", 0),
            Field(AddressOfInspectedProperty, "/Tx", 0), Field(NameOfInspector, "/Tx", 0)>>
     ELSE <<>>)
    \o [k \in 1..nCheck |-> CheckBoxField(k - 1, numPages - 1)]
    \o [k \in 1..(IF nText < Len(TextNamePool) THEN nText ELSE Len(TextNamePool)) |->
          Field(TextNamePool[k], "/Tx", numPages - 1)]

Template(exists, withScalars, nCheck, nText, numPages) ==
    [exists |-> exists, numPages |-> numPages,
     fields |-> Catalog(withScalars, nCheck, nText, numPages)]

\* a template whose catalog lacks one field
WithoutField(tpl, name) ==
    [tpl EXCEPT !.fields = SelectSeq(@, LAMBDA f : f.name # name)]

\* a template whose checkboxes all carry the unchecked value /Off
PresetOff(tpl) ==
    [tpl EXCEPT !.fields =
        [k \in 1..Len(@) |-> IF @[k].FT = "/Btn" THEN [@[k] EXCEPT !.V = SlashOff] ELSE @[k]]]

\* no value
NoValue == <<>>

\* writer.add_page of every page: the template's widgets, unfilled
CopyPages(tpl) ==
    [name \in {tpl.fields[k].name : k \in 1..Len(tpl.fields)} |->
        LET f == tpl.fields[CHOOSE k \in 1..Len(tpl.fields) : tpl.fields[k].name = name]
        IN  [FT |-> f.FT, page |-> f.page, V |-> f.V,
             AS |-> IF f.FT = "/Btn" THEN <<"/", "O", "f", "f">> ELSE NoValue,
             Ff |-> 0]]

\* the templates of the runs
TemplatePool ==
    <<Template(TRUE, TRUE, MaxChecks, Len(TextNamePool), MaxPages),
      Template(TRUE, TRUE, MaxChecks, 3, 2),
      Template(TRUE, TRUE, 2 * MatrixStride - 1, 1, 1),
      Template(TRUE, FALSE, MatrixStride, Len(TextNamePool), 2),
      Template(TRUE, FALSE, MaxChecks, 0, 1),
      Template(TRUE, TRUE, 0, 2, MaxPages),
      WithoutField(Template(TRUE, TRUE, MatrixStride, 2, 2), NameOfInspector),
      Template(TRUE, FALSE, 0, 0, 1),
      Template(FALSE, FALSE, 0, 0, 1)>>

---------------------------------------------------------------------------
(* The run of generate_report *)

Variants == {"report", "working1"}

NoScalars ==
    [client_name |-> <<>>, inspection_date |-> <<>>,
     property_address |-> <<>>, inspector_name |-> <<>>]

NoAcroForm == [present |-> FALSE, NeedAppearances |-> FALSE]

\* the runs explored: every record against every template with the first
\* schedule, and every schedule in every time zone with the first records
\* and templates
InputFocus(header, schedule, zone, n, a, b, t) ==
    \/ header /\ schedule = 1 /\ zone = 1
    \/ n <= 1 /\ a = 0 /\ b = 0 /\ t <= 2

Init ==
    \E v \in Variants, header \in BOOLEAN, schedule \in 1..Len(SchedulePool),
       zone \in 1..Len(TzPool), n \in 0..MaxSections, a \in 0..MaxStride,
       b \in 0..(NShapes - 1), t \in 1..Len(TemplatePool) :
        /\ InputFocus(header, schedule, zone, n, a, b, t)
        /\ variant = v
        /\ data = Record(header, schedule, n, a, b)
        /\ tz = TzPool[zone]
        /\ template = TemplatePool[t]
        /\ pc = "start"
        /\ returned = "none"
        /\ sections = <<>>
        /\ scalars = NoScalars
        /\ date_fallback = FALSE
        /\ form_data = NoData
        /\ inspection_sections = <<>>
        /\ matrix_calls = <<>>
        /\ comments_to_fill = <<>>
        /\ field_data = NoData
        /\ widgets = NoData
        /\ acroform = NoAcroForm
        /\ output = "absent"
        /\ parsed = <<>>
        /\ json_file = "valid"
        /\ main_pc = "none"
        /\ main_returned = "none"

\* os.path.exists(self.template_path); PdfReader, PdfWriter
CheckTemplate ==
    /\ pc = "start"
    /\ IF template.exists
       THEN pc' = "extract" /\ returned' = returned
       ELSE pc' = "done" /\ returned' = "False"
    /\ UNCHANGED <<outer, variant, data, tz, template, sections, scalars, date_fallback,
                   form_data, inspection_sections, matrix_calls, comments_to_fill,
                   field_data, widgets, acroform, output>>

\* the parser getters and the locals derived from them; an exception that
\* leaves the block reaches the handler of generate_report, which returns False
ExtractData ==
    /\ pc = "extract"
    /\ LET date_timestamp == get_inspection_schedule(data).date
           derived == DeriveInspectionDate(date_timestamp, tz)
       IN  /\ sections' = get_sections(data)
           /\ IF derived.raised
              THEN /\ scalars' = scalars
                   /\ date_fallback' = date_fallback
                   /\ pc' = "done"
                   /\ returned' = "False"
              ELSE /\ scalars' = [client_name |-> get_client_info(data).name,
                                  inspection_date |-> derived.date,
                                  property_address |-> get_property_info(data).full_address,
                                  inspector_name |-> get_inspector_info(data).name]
                   /\ date_fallback' = derived.fallback
                   /\ pc' = "fields"
                   /\ returned' = returned
    /\ UNCHANGED <<outer, variant, data, tz, template, form_data,
                   inspection_sections, matrix_calls, comments_to_fill, field_data,
                   widgets, acroform, output>>

\* mutant: a template without fields is filled and written like any other
CheckFields_NoFieldsTest ==
    /\ pc = "fields"
    /\ widgets' = CopyPages(template)
    /\ pc' = "scalar"
    /\ returned' = returned
    /\ UNCHANGED <<outer, variant, data, tz, template, sections, scalars, date_fallback,
                   form_data, inspection_sections, matrix_calls, comments_to_fill,
                   field_data, acroform, output>>

\* form_fields = reader.get_fields(); the pages are copied to the writer
CheckFields ==
    /\ pc = "fields"
    /\ IF Len(template.fields) > 0
       THEN /\ widgets' = CopyPages(template)
            /\ pc' = "scalar"
            /\ returned' = returned
       ELSE /\ widgets' = widgets
            /\ pc' = "done"
            /\ returned' = "False"
    /\ UNCHANGED <<outer, variant, data, tz, template, sections, scalars, date_fallback,
                   form_data, inspection_sections, matrix_calls, comments_to_fill,
                   field_data, acroform, output>>

\* form_data and writer.update_page_form_field_values(writer.pages[0], form_data),
\* which also creates /AcroForm with NeedAppearances in the writer
ScalarFill ==
    /\ pc = "scalar"
    /\ form_data' = BuildFormData(template, scalars)
    /\ widgets' = update_page_form_field_values(widgets, 0, form_data')
    /\ acroform' = [present |-> TRUE, NeedAppearances |-> TRUE]
    /\ pc' = "matrix"
    /\ UNCHANGED <<outer, variant, data, tz, template, returned, sections, scalars,
                   date_fallback, inspection_sections, matrix_calls,
                   comments_to_fill, field_data, output>>

\* mutant: _fill_inspection_matrix has no handler of its own, so that its
\* exception reaches the handler of generate_report
FillInspectionMatrix_NoHandler ==
    /\ pc = "matrix"
    /\ LET r == fill_inspection_matrix(variant, template, sections, widgets)
       IN  /\ inspection_sections' = r.inspection_sections
           /\ matrix_calls' = r.calls
           /\ widgets' = r.widgets
           /\ pc' = IF r.raised THEN "done" ELSE "details"
           /\ returned' = IF r.raised THEN "False" ELSE returned
    /\ UNCHANGED <<outer, variant, data, tz, template, sections, scalars,
                   date_fallback, form_data, comments_to_fill, field_data,
                   acroform, output>>

FillInspectionMatrix ==
    /\ pc = "matrix"
    /\ LET r == fill_inspection_matrix(variant, template, sections, widgets)
       IN  /\ inspection_sections' = r.inspection_sections
           /\ matrix_calls' = r.calls
           /\ widgets' = r.widgets
    /\ pc' = "details"
    /\ UNCHANGED <<outer, variant, data, tz, template, returned, sections, scalars,
                   date_fallback, form_data, comments_to_fill, field_data,
                   acroform, output>>

FillInspectionDetails ==
    /\ pc = "details"
    /\ LET r == fill_inspection_details(template, sections, widgets)
       IN  /\ comments_to_fill' = r.comments_to_fill
           /\ field_data' = r.field_data
           /\ widgets' = r.widgets
    /\ pc' = IF variant = "working1" THEN "flatten" ELSE "write"
    /\ UNCHANGED <<outer, variant, data, tz, template, returned, sections, scalars,
                   date_fallback, form_data, inspection_sections, matrix_calls,
                   acroform, output>>

\* working-1.py _flatten_all_form_fields_completely on one filled widget.
\* `annot[NameObject('/Ff')] = 1` stores a plain int in a DictionaryObject:
\* a PyPDF2 that accepts it lets the flags and /AS be set; one that rejects
\* a value that is no PdfObject raises there, the handler of the annotation
\* catches it, and the widget keeps its flags and /AS
FlattenWidget(w, accepted) ==
    IF w.V # NoValue /\ accepted
    THEN [w EXCEPT !.Ff = 1,
                   !.AS = IF w.FT = "/Btn" THEN <<"/">> \o Yes ELSE @]
    ELSE w

\* mutant: /AcroForm is kept, with NeedAppearances set
FlattenAndRemoveAcroForm_KeepsAcroForm ==
    /\ pc = "flatten"
    /\ \E accepted \in BOOLEAN :
          widgets' = [name \in DOMAIN widgets |-> FlattenWidget(widgets[name], accepted)]
    /\ acroform' = [acroform EXCEPT !.NeedAppearances = acroform.present]
    /\ pc' = "write"
    /\ UNCHANGED <<outer, variant, data, tz, template, returned, sections, scalars,
                   date_fallback, form_data, inspection_sections, matrix_calls,
                   comments_to_fill, field_data, output>>

\* working-1.py only: NeedAppearances, the flattening of every filled
\* widget, and the removal of /AcroForm
FlattenAndRemoveAcroForm ==
    /\ pc = "flatten"
    /\ \E accepted \in BOOLEAN :
          widgets' = [name \in DOMAIN widgets |-> FlattenWidget(widgets[name], accepted)]
    /\ acroform' = NoAcroForm
    /\ pc' = "write"
    /\ UNCHANGED <<outer, variant, data, tz, template, returned, sections, scalars,
                   date_fallback, form_data, inspection_sections, matrix_calls,
                   comments_to_fill, field_data, output>>

\* mutant: the document is written before narrative fill
WriteOutput_BeforeDetails ==
    /\ pc = "details"
    /\ output' = [widgets |-> widgets, acroform |-> acroform]
    /\ returned' = "True"
    /\ pc' = "done"
    /\ UNCHANGED <<outer, variant, data, tz, template, sections, scalars, date_fallback,
                   form_data, inspection_sections, matrix_calls, comments_to_fill,
                   field_data, widgets, acroform>>

\* with open(output_path, 'wb'): writer.write(output_file); return True
WriteOutput ==
    /\ pc = "write"
    /\ output' = [widgets |-> widgets, acroform |-> acroform]
    /\ returned' = "True"
    /\ pc' = "done"
    /\ UNCHANGED <<outer, variant, data, tz, template, sections, scalars, date_fallback,
                   form_data, inspection_sections, matrix_calls, comments_to_fill,
                   field_data, widgets, acroform>>

Next ==
    \/ CheckTemplate
    \/ ExtractData
    \/ CheckFields
    \/ ScalarFill
    \/ FillInspectionMatrix
    \/ FillInspectionDetails
    \/ FlattenAndRemoveAcroForm
    \/ WriteOutput

Spec == Init /\ [][Next]_vars

---------------------------------------------------------------------------
(* Vocabulary of the properties *)

\* _fill_inspection_matrix has returned
MatrixDone == pc \in {"details", "flatten", "write"} \/ (pc = "done" /\ returned = "True")

\* _fill_inspection_details has returned
DetailsDone == pc \in {"flatten", "write"} \/ (pc = "done" /\ returned = "True")

\* the locals of generate_report have been derived
ExtractDone == pc \notin {"start", "extract"} /\ template.exists

CatalogNames == {template.fields[k].name : k \in 1..Len(template.fields)}

\* a section with at least one line item whose first status is not blank
Qualifies(section) ==
    /\ Len(section.line_items) >= 1
    /\ Strip(section.line_items[1].inspection_status.s) # <<>>

\* the qualifying sections of the record, in input order
Qualifying == SelectSeq(sections, Qualifies)

\* the status of the i-th qualifying section (0-indexed)
StatusOf(i) == Qualifying[i + 1].line_items[1].inspection_status.s

Recognised == {StatusI, StatusNI, StatusNP, StatusD}

Offset(s) ==
    CASE s = StatusI -> 0 [] s = StatusNI -> 1 [] s = StatusNP -> 2 [] s = StatusD -> 3

\* the field names handed to the update calls issued for the section at
\* position i of the candidate list
WrittenBy(i) ==
    UNION {DOMAIN matrix_calls[k].data :
             k \in {j \in 1..Len(matrix_calls) : matrix_calls[j].i = i}}

AllWritten == UNION {DOMAIN matrix_calls[k].data : k \in 1..Len(matrix_calls)}

CheckBox1_7 == <<"C", "h", "e", "c", "k", "B", "o", "x", "1", "[", "7", "]">>
CheckBox1_47 == <<"C", "h", "e", "c", "k", "B", "o", "x", "1", "[", "4", "7", "]">>
CheckBox1_48 == <<"C", "h", "e", "c", "k", "B", "o", "x", "1", "[", "4", "8", "]">>

---------------------------------------------------------------------------
(* C1: in matrix fill the i-th qualifying section (0-indexed, i < 12) with  *)
(* first status s gets the checkbox CheckBox1[4*i + offset(s)] written,    *)
(* offset(I)=0, offset(NI)=1, offset(NP)=2, offset(D)=3, provided that     *)
(* name is in the field catalog; for any other status no checkbox is       *)
(* written for that section.                                               *)
C1_MatrixSlot ==
    MatrixDone =>
        \A i \in 0..(Len(Qualifying) - 1) :
            i < 12 =>
                IF StatusOf(i) \in Recognised
                THEN LET name == CheckBoxName(4 * i + Offset(StatusOf(i)))
                     IN  name \in CatalogNames => WrittenBy(i) = {name}
                ELSE WrittenBy(i) = {}

\* the second qualifying section has status D and CheckBox1[7] is written
\* for it, and some qualifying section has a status outside I, NI, NP, D
C1_Witness ==
    /\ MatrixDone
    /\ Len(Qualifying) >= 2
    /\ StatusOf(1) = StatusD
    /\ WrittenBy(1) = {CheckBox1_7}
    /\ \E i \in 0..(Len(Qualifying) - 1) : i < 12 /\ StatusOf(i) \notin Recognised

(* C2: a section is in the matrix candidate list iff it has at least one  *)
(* line item and its first line item's stripped status is non-empty; the  *)
(* statuses of the later line items change neither the candidate list nor *)
(* the checkbox targeted.                                                  *)
WithLaterStatus(section, status) ==
    [section EXCEPT !.line_items =
        [j \in 1..Len(section.line_items) |->
            IF j = 1 THEN section.line_items[1]
            ELSE [section.line_items[j] EXCEPT !.inspection_status = Str(status)]]]

WithFirstItemOnly(section) ==
    [section EXCEPT !.line_items = Slice(section.line_items, 1)]

C2_FirstItemDecides ==
    MatrixDone =>
        /\ inspection_sections =
             [k \in 1..Len(Qualifying) |->
                [name |-> Qualifying[k].name,
                 status |-> Qualifying[k].line_items[1].inspection_status,
                 deficient |-> Qualifying[k].line_items[1].is_deficient]]
        /\ \A status \in {<<>>, StatusI, StatusD, <<" ">>} :
             LET changed == [k \in 1..Len(sections) |-> WithLaterStatus(sections[k], status)]
                 r == fill_inspection_matrix(variant, template, changed, CopyPages(template))
             IN  r.inspection_sections = inspection_sections /\ r.calls = matrix_calls
        /\ LET cut == [k \in 1..Len(sections) |-> WithFirstItemOnly(sections[k])]
               r == fill_inspection_matrix(variant, template, cut, CopyPages(template))
           IN  r.inspection_sections = inspection_sections /\ r.calls = matrix_calls

\* a section whose first status is blank and whose second is I stays out,
\* and a section whose first status is NI and whose second is D is in
C2_Witness ==
    /\ MatrixDone
    /\ \E k \in 1..Len(sections) :
          /\ Len(sections[k].line_items) >= 2
          /\ ~Qualifies(sections[k])
          /\ sections[k].line_items[2].inspection_status = Str(StatusI)
    /\ \E k \in 1..Len(sections) :
          /\ Len(sections[k].line_items) >= 2
          /\ sections[k].line_items[1].inspection_status = Str(StatusNI)
          /\ sections[k].line_items[2].inspection_status = Str(StatusD)
    /\ \E k \in 1..Len(sections) : sections[k].line_items = <<>>
    /\ inspection_sections # <<>>
    /\ Len(inspection_sections) < Len(sections)

(* C3: only the first 12 qualifying sections can cause a checkbox write:  *)
(* the 13th and later ones write nothing, every checkbox index written    *)
(* lies in 0..47 and at most 12 checkboxes are written in total.          *)
C3_MatrixLimit ==
    MatrixDone =>
        /\ \A k \in 1..Len(matrix_calls) : matrix_calls[k].i < 12
        /\ \A i \in 12..(Len(Qualifying) - 1) : WrittenBy(i) = {}
        /\ AllWritten \subseteq {CheckBoxName(n) : n \in 0..47}
        /\ Cardinality(AllWritten) <= 12

\* thirteen or more sections qualify, all with status D, the catalog holds
\* CheckBox1[48], and exactly 12 checkboxes up to CheckBox1[47] are written
C3_Witness ==
    /\ MatrixDone
    /\ Len(Qualifying) >= 13
    /\ StatusOf(12) = StatusD
    /\ CheckBox1_48 \in CatalogNames
    /\ CheckBox1_47 \in AllWritten
    /\ Cardinality(AllWritten) = 12

(* C4: for each section processed by matrix fill at most one checkbox     *)
(* field is written, the one at the slot selected by its status; the      *)
(* other three slots of its group of four are never written by it, and    *)
(* nothing is written when the selected slot is absent from the catalog.  *)
C4_OnlySelectedSlot ==
    MatrixDone =>
        /\ \A k \in 1..Len(matrix_calls) : Cardinality(DOMAIN matrix_calls[k].data) <= 1
        /\ \A i \in 0..(Len(Qualifying) - 1) :
             /\ Cardinality(WrittenBy(i)) <= 1
             /\ \A o \in 0..3 :
                  CheckBoxName(4 * i + o) \in WrittenBy(i) =>
                      /\ StatusOf(i) \in Recognised
                      /\ o = Offset(StatusOf(i))
                      /\ CheckBoxName(4 * i + o) \in CatalogNames
             /\ WrittenBy(i) \subseteq {CheckBoxName(4 * i + o) : o \in 0..3}
             /\ (StatusOf(i) \in Recognised
                 /\ CheckBoxName(4 * i + Offset(StatusOf(i))) \notin CatalogNames)
                => WrittenBy(i) = {}

\* one section has its checkbox written, and another one, whose status is
\* recognised, selects a slot the catalog lacks and writes nothing
C4_Witness ==
    /\ MatrixDone
    /\ \E i \in 0..(Len(Qualifying) - 1) : Cardinality(WrittenBy(i)) = 1
    /\ \E i \in 0..(Len(Qualifying) - 1) :
          /\ i < 12
          /\ StatusOf(i) \in Recognised
          /\ CheckBoxName(4 * i + Offset(StatusOf(i))) \notin CatalogNames
          /\ \E o \in 0..3 : CheckBoxName(4 * i + o) \in CatalogNames
          /\ WrittenBy(i) = {}

---------------------------------------------------------------------------
(* Vocabulary of the narrative properties *)

\* the positions <<section, line item, comment>> of the record's comments
CommentPositions ==
    UNION {UNION {{<<i, j, k>> : k \in 1..Len(sections[i].line_items[j].comments)} :
                    j \in 1..Len(sections[i].line_items)} :
             i \in 1..Len(sections)}

CommentAt(p) == sections[p[1]].line_items[p[2]].comments[p[3]]

\* discovery order: section order, then line-item order, then comment order
Before(p, q) ==
    \/ p[1] < q[1]
    \/ p[1] = q[1] /\ p[2] < q[2]
    \/ p[1] = q[1] /\ p[2] = q[2] /\ p[3] < q[3]

\* a set of positions as a list in discovery order
InDiscoveryOrder(S) ==
    [r \in 1..Cardinality(S) |->
        CHOOSE p \in S : Cardinality({q \in S : Before(q, p)}) = r - 1]

\* the comments with non-blank text
Kept == {p \in CommentPositions : Strip(CommentAt(p).text.s) # <<>>}

IsDeficiency(p) == CommentAt(p).type = <<"d", "e", "f", "e", "c", "t">>

\* "<section name>[ (<location>)]: <text>"
Rendered(p) ==
    sections[p[1]].name
    \o (IF CommentAt(p).location = <<>> THEN <<>>
        ELSE <<" ", "(">> \o CommentAt(p).location \o <<")">>)
    \o <<":", " ">> \o Strip(CommentAt(p).text.s)

RenderedAll(positions) == [r \in 1..Len(positions) |-> Rendered(positions[r])]

\* the free-text fields: 'Text' in the name, not starting with 'TextField'
Eligible ==
    SelectSeq(FieldNames(template),
              LAMBDA f : Contains(f, <<"T", "e", "x", "t">>)
                         /\ ~StartsWith(f, <<"T", "e", "x", "t", "F", "i", "e", "l", "d">>))

\* the number of fields narrative fill writes
Assigned ==
    IF Len(comments_to_fill) < Len(Eligible) THEN Len(comments_to_fill) ELSE Len(Eligible)

\* a rendered comment as it is written
Cut(c) == IF Len(c) > 500 THEN SubSeq(c, 1, 500) \o <<".", ".", ".">> ELSE c

WallsD1 == <<"W", "a", "l", "l", "s", " ", "(", "H", "a", "l", "l", ")", ":", " ", "D", "1">>
WallsG1 == <<"W", "a", "l", "l", "s", ":", " ", "G", "1">>
WallsG2 == <<"W", "a", "l", "l", "s", ":", " ", "G", "2">>
RoofNorthSlope == <<"R", "o", "o", "f", " ", "(", "N", "o", "r", "t", "h", " ", "s", "l", "o", "p", "e", ")", ":", " ", "m", "i", "s", "s", "i", "n", "g", " ", "s", "h", "i", "n", "g", "l", "e", "s">>
RoofNoLocation == <<"R", "o", "o", "f", ":", " ", "m", "i", "s", "s", "i", "n", "g", " ", "s", "h", "i", "n", "g", "l", "e", "s">>
Date08132025 == <<"0", "8", "/", "1", "3", "/", "2", "0", "2", "5">>

---------------------------------------------------------------------------
(* C5: the comments presented to the text fields are all deficiency        *)
(* comments (type 'defect') in discovery order (section, line item,        *)
(* comment), then all general comments in discovery order; discovery      *)
(* order G1, D1, G2 yields [D1, G1, G2].                                   *)
C5_DeficienciesFirst ==
    DetailsDone =>
        /\ comments_to_fill =
             RenderedAll(InDiscoveryOrder({p \in Kept : IsDeficiency(p)}))
             \o RenderedAll(InDiscoveryOrder({p \in Kept : ~IsDeficiency(p)}))
        /\ (Len(sections) = 1 /\ sections[1].name = Walls)
           => comments_to_fill = <<WallsD1, WallsG1, WallsG2>>

\* a record whose only section holds G1, D1, G2 in that order
C5_Witness ==
    /\ DetailsDone
    /\ Len(sections) = 1
    /\ sections[1].name = Walls
    /\ Len(sections[1].line_items[1].comments) = 3
    /\ ~IsDeficiency(<<1, 1, 1>>) /\ IsDeficiency(<<1, 1, 2>>) /\ ~IsDeficiency(<<1, 1, 3>>)
    /\ Len(comments_to_fill) = 3

(* C6: a comment is rendered as the section name, then ' (' + location +  *)
(* ')' iff the location is non-empty, then ': ' and the comment text:     *)
(* 'Roof', 'North slope', 'missing shingles' renders as                   *)
(* 'Roof (North slope): missing shingles' and with an empty location as   *)
(* 'Roof: missing shingles'.                                               *)
C6_Rendering ==
    DetailsDone =>
        /\ \A p \in Kept : \E r \in 1..Len(comments_to_fill) : comments_to_fill[r] = Rendered(p)
        /\ \A r \in 1..Len(comments_to_fill) : \E p \in Kept : comments_to_fill[r] = Rendered(p)
        /\ (Len(sections) = 1 /\ sections[1].name = Roof)
           => comments_to_fill = <<RoofNorthSlope, RoofNoLocation>>

\* a record whose only section is Roof, with one comment located at
\* 'North slope' and one without location, both 'missing shingles'
C6_Witness ==
    /\ DetailsDone
    /\ Len(sections) = 1
    /\ sections[1].name = Roof
    /\ CommentAt(<<1, 1, 1>>).location = NorthSlope
    /\ CommentAt(<<1, 1, 2>>).location = <<>>
    /\ CommentAt(<<1, 1, 1>>).text = Str(MissingShingles)
    /\ CommentAt(<<1, 1, 2>>).text = Str(MissingShingles)
    /\ Len(comments_to_fill) = 2

(* C7: a rendered comment longer than 500 characters is written as its    *)
(* first 500 characters plus '...', a comment of at most 500 characters   *)
(* is written unchanged, and a comment whose text is 600 characters long  *)
(* is written as a value of length 503.                                    *)
C7_Truncation ==
    DetailsDone =>
        \A k \in 1..Assigned :
            LET c == comments_to_fill[k]
                v == field_data[Eligible[k]].s
            IN  /\ Len(c) > 500 =>
                     /\ Len(v) = 503
                     /\ SubSeq(v, 1, 500) = SubSeq(c, 1, 500)
                     /\ SubSeq(v, 501, 503) = <<".", ".", ".">>
                /\ Len(c) <= 500 => v = c
                /\ (\E p \in Kept : Len(CommentAt(p).text.s) = 600 /\ Rendered(p) = c)
                   => Len(v) = 503

\* three fields are written: a comment of exactly 500 characters unchanged,
\* one of 501 characters cut, and one whose text is 600 characters long cut
C7_Witness ==
    /\ DetailsDone
    /\ Assigned >= 3
    /\ \E k \in 1..Assigned :
          Len(comments_to_fill[k]) = 500 /\ field_data[Eligible[k]].s = comments_to_fill[k]
    /\ \E k \in 1..Assigned :
          Len(comments_to_fill[k]) = 501 /\ Len(field_data[Eligible[k]].s) = 503
    /\ \E k \in 1..Assigned : \E p \in Kept :
          /\ Len(CommentAt(p).text.s) = 600
          /\ Rendered(p) = comments_to_fill[k]
          /\ Len(field_data[Eligible[k]].s) = 503

(* C8: narrative fill assigns the k-th comment of the fill order to the   *)
(* k-th eligible free-text field in catalog order; exactly min(number of  *)
(* comments, number of eligible fields) fields are written, the comments  *)
(* beyond that are dropped and the eligible fields beyond that are left   *)
(* untouched.                                                              *)
C8_Assignment ==
    DetailsDone =>
        /\ DOMAIN field_data = {Eligible[k] : k \in 1..Assigned}
        /\ Cardinality(DOMAIN field_data) = Assigned
        /\ \A k \in 1..Assigned :
             /\ field_data[Eligible[k]] = Str(Cut(comments_to_fill[k]))
             /\ widgets[Eligible[k]].V = Cut(comments_to_fill[k])
        /\ \A k \in (Assigned + 1)..Len(Eligible) : widgets[Eligible[k]].V = NoValue
        /\ \A name \in DOMAIN widgets :
             (widgets[name].FT = "/Tx" /\ name \notin DOMAIN field_data
              /\ name \notin DOMAIN form_data)
             => widgets[name].V = NoValue

\* more comments than fields: three fields written, the fourth comment
\* dropped, and a reserved TextField between the eligible fields untouched
C8_Witness ==
    /\ DetailsDone
    /\ Len(Eligible) = 3
    /\ Len(comments_to_fill) > 3
    /\ Cardinality(DOMAIN field_data) = 3
    /\ TextField1 \in CatalogNames
    /\ widgets[TextField1].V = NoValue

\* fewer comments than fields: one field written, the others untouched
C8_WitnessSpareFields ==
    /\ DetailsDone
    /\ Len(comments_to_fill) = 1
    /\ Len(Eligible) = 3
    /\ widgets[Eligible[1]].V # NoValue
    /\ widgets[Eligible[3]].V = NoValue

---------------------------------------------------------------------------
(* Vocabulary of the date properties *)

Inspection == data["inspection"]

\* the record holds a schedule with a date
TimestampPresent == "schedule" \in DOMAIN Inspection /\ "date" \in DOMAIN Inspection["schedule"]

Timestamp == Inspection["schedule"]["date"]

\* a millisecond epoch value the platform can convert
IsEpochValue(v) == v.t = "num"

\* a value whose conversion fails: not a number, or a number out of range
ConversionFails(v) == v.t \in {"str", "null", "list", "huge", "nan"}

---------------------------------------------------------------------------
(* C9: for every schedule whose timestamp is missing or cannot be         *)
(* converted, the inspection date is the fallback literal '08/13/2025',   *)
(* and the date derivation never makes generate_report fail.              *)
C9_DateFallback ==
    (ExtractDone /\ (~TimestampPresent \/ ConversionFails(Timestamp)))
    => /\ returned = "False" => Len(template.fields) = 0
       /\ returned # "False" => scalars.inspection_date = Date08132025
       /\ (pc = "done" /\ DateOfInspection \in CatalogNames)
          => /\ returned = "True"
             /\ output.widgets[DateOfInspection].V = Date08132025

\* a run that ends with True on a record whose timestamp is the string
\* 'abc', with the fallback date in the written document
C9_Witness ==
    /\ pc = "done"
    /\ returned = "True"
    /\ TimestampPresent
    /\ Timestamp = Str(Abc)
    /\ output.widgets[DateOfInspection].V = Date08132025

\* a run that ends with True on a record without schedule
C9_WitnessMissing ==
    /\ pc = "done"
    /\ returned = "True"
    /\ ~TimestampPresent
    /\ scalars.inspection_date = Date08132025

(* C10: whenever the schedule's timestamp is present and convertible (any *)
(* millisecond epoch value, including 0), the inspection date is the      *)
(* MM/DD/YYYY rendering of the timestamp divided by 1000, and the         *)
(* fallback literal is used only when the timestamp is absent or its      *)
(* conversion fails.                                                       *)
C10_DateConversion ==
    ExtractDone
    => /\ (TimestampPresent /\ IsEpochValue(Timestamp))
          => /\ scalars.inspection_date = FormatTimestamp(Timestamp, tz)
             /\ ~date_fallback
       /\ date_fallback => (~TimestampPresent \/ ConversionFails(Timestamp))

---------------------------------------------------------------------------
(* The parser getters on arbitrary JSON values.  In the runs of the        *)
(* parser alone `data` is what json.load returned, with every JSON object  *)
(* and array tagged, so that a getter can meet a list, a string or null    *)
(* where it expects a mapping.                                             *)

Dict(d) == [t |-> "dict", d |-> d]
Arr(items) == [t |-> "arr", items |-> items]

\* v.get(...) raises AttributeError unless v is a dict
GetFails(v) == v.t # "dict"

\* v.get(key, default) of a dict v
DictGet(v, key, default) == Get(v.d, key, default)

\* `for x in v` raises TypeError on None, a number or a boolean
IterFails(v) == v.t \in {"null", "num", "bool", "huge", "nan"}

\* what `for x in v` yields: the items of a list, the characters of a
\* string, the keys of a dict (strings; which ones does not matter here)
Items(v) ==
    CASE v.t = "arr" -> v.items
      [] v.t = "str" -> [i \in 1..Len(v.s) |-> Str(<<v.s[i]>>)]
      [] v.t = "dict" -> [i \in 1..Cardinality(DOMAIN v.d) |-> Str(<<"k">>)]

\* self.data.get('inspection', {}) followed by inspection.get(key, {}) and
\* the .get calls on the result raise
EntityRaises(d, key) ==
    \/ GetFails(d)
    \/ LET inspection == DictGet(d, "inspection", Dict(EmptyDict))
       IN  \/ GetFails(inspection)
           \/ GetFails(DictGet(inspection, key, Dict(EmptyDict)))

PropertyInfoRaises(d) ==
    \/ EntityRaises(d, "address")
    \/ LET inspection == DictGet(d, "inspection", Dict(EmptyDict))
           address == DictGet(inspection, "address", Dict(EmptyDict))
       IN  GetFails(DictGet(address, "propertyInfo", Dict(EmptyDict)))

ClientInfoRaises(d) == EntityRaises(d, "clientInfo")

InspectorInfoRaises(d) == EntityRaises(d, "inspector")

InspectionScheduleRaises(d) == EntityRaises(d, "schedule")

\* the body of `for line_item in line_items` raises
LineItemRaises(line_item) ==
    \/ GetFails(line_item)
    \/ LET comments == DictGet(line_item, "comments", Arr(<<>>))
       IN  \/ IterFails(comments)
           \/ \E k \in 1..Len(Items(comments)) : GetFails(Items(comments)[k])

\* the body of `for section in sections` raises
SectionRaises(section) ==
    \/ GetFails(section)
    \/ LET line_items == DictGet(section, "lineItems", Arr(<<>>))
       IN  \/ IterFails(line_items)
           \/ \E j \in 1..Len(Items(line_items)) : LineItemRaises(Items(line_items)[j])

SectionsRaises(d) ==
    \/ GetFails(d)
    \/ LET inspection == DictGet(d, "inspection", Dict(EmptyDict))
       IN  \/ GetFails(inspection)
           \/ LET secs == DictGet(inspection, "sections", Arr(<<>>))
              IN  \/ IterFails(secs)
                  \/ \E i \in 1..Len(Items(secs)) : SectionRaises(Items(secs)[i])

\* the mapping or sequence inside a tagged value, anything else as it is
Untag(v) == IF v.t = "dict" THEN v.d ELSE IF v.t = "arr" THEN v.items ELSE v

\* a tagged object with the value under one key replaced by f of it
UntagWith(v, key, f(_)) ==
    IF v.t = "dict"
    THEN [k \in DOMAIN v.d |-> IF k = key THEN f(v.d[k]) ELSE v.d[k]]
    ELSE v

\* each item of a tagged array replaced by f of it
UntagEach(v, f(_)) ==
    IF v.t \in {"arr", "str", "dict"}
    THEN [i \in 1..Len(Items(v)) |-> f(Items(v)[i])]
    ELSE v

PlainComments(v) == UntagEach(v, Untag)
PlainLineItem(v) == UntagWith(v, "comments", PlainComments)
PlainLineItems(v) == UntagEach(v, PlainLineItem)
PlainSection(v) == UntagWith(v, "lineItems", PlainLineItems)
PlainSections(v) == UntagEach(v, PlainSection)
PlainAddress(v) == UntagWith(v, "propertyInfo", Untag)

PlainInspection(v) ==
    IF v.t = "dict"
    THEN [k \in DOMAIN v.d |->
            CASE k = "sections" -> PlainSections(v.d[k])
              [] k = "address" -> PlainAddress(v.d[k])
              [] k \in {"clientInfo", "inspector", "schedule"} -> Untag(v.d[k])
              [] OTHER -> v.d[k]]
    ELSE v

\* the record with its tags removed: objects as functions, arrays as
\* sequences, as the getters above read them
Plain(v) == UntagWith(v, "inspection", PlainInspection)

\* the outcome of one getter call: an exception, or the value returned
Raised == [raised |-> TRUE]
Returned(value) == [raised |-> FALSE, value |-> value]

CallGetPropertyInfo(d) ==
    IF PropertyInfoRaises(d) THEN Raised ELSE Returned(get_property_info(Plain(d)))
CallGetClientInfo(d) ==
    IF ClientInfoRaises(d) THEN Raised ELSE Returned(get_client_info(Plain(d)))
CallGetInspectorInfo(d) ==
    IF InspectorInfoRaises(d) THEN Raised ELSE Returned(get_inspector_info(Plain(d)))
CallGetInspectionSchedule(d) ==
    IF InspectionScheduleRaises(d) THEN Raised ELSE Returned(get_inspection_schedule(Plain(d)))
CallGetSections(d) ==
    IF SectionsRaises(d) THEN Raised ELSE Returned(get_sections(Plain(d)))

---------------------------------------------------------------------------
(* Inputs of the parser runs: one fully populated record, with a set of    *)
(* keys left out or with one value of the wrong type put in its place      *)

FullComment ==
    [id |-> <<"c", "1">>, text |-> Str(CrackedTile), type |-> Defect, location |-> Hall,
     label |-> <<"L">>, isSelected |-> TRUE, isFlagged |-> TRUE,
     commentNumber |-> <<"7">>, photos |-> <<Abc>>, videos |-> <<Abc, Abc>>]

FullLineItem(comments) ==
    [id |-> <<"l", "1">>, name |-> Roof, title |-> Attic, order |-> 2,
     inspectionStatus |-> Str(StatusD), isDeficient |-> TRUE, comments |-> comments]

FullSection(line_items) ==
    [id |-> <<"s", "1">>, name |-> SectionA, order |-> 3, sectionNumber |-> <<"I">>,
     lineItems |-> line_items]

FullAddress(property_info) ==
    [street |-> OneElm, city |-> Hall, state |-> <<"T", "X">>, zipcode |-> <<"7", "5">>,
     fullAddress |-> OneElm, propertyInfo |-> property_info]

FullPropertyInfo == [squareFootage |-> <<"9", "0", "0">>]

FullClientInfo == [name |-> Ann, email |-> Abc, phone |-> <<"5">>, userType |-> <<"b">>]

FullInspector == [id |-> <<"i", "1">>, name |-> Bo, email |-> Abc, phone |-> <<"6">>]

FullSchedule == [date |-> Num(1755043200, 0), startTime |-> <<"9">>, endTime |-> <<"1", "0">>]

FullInspection(address, client, inspector, schedule, secs) ==
    [address |-> address, clientInfo |-> client, inspector |-> inspector,
     schedule |-> schedule, sections |-> secs]

\* the objects of a record, by the place they take in it, and their keys
LevelKeys ==
    [root |-> {"inspection"},
     inspection |-> DOMAIN FullInspection(0, 0, 0, 0, 0),
     address |-> DOMAIN FullAddress(0),
     propertyInfo |-> DOMAIN FullPropertyInfo,
     clientInfo |-> DOMAIN FullClientInfo,
     inspector |-> DOMAIN FullInspector,
     schedule |-> DOMAIN FullSchedule,
     section |-> DOMAIN FullSection(0),
     lineItem |-> DOMAIN FullLineItem(0),
     comment |-> DOMAIN FullComment]

Levels == DOMAIN LevelKeys

AllKeys == UNION {{<<level, k>> : k \in LevelKeys[level]} : level \in Levels}

\* the sets of keys left out of a record: none, any single key, every key
\* of one object, every key
DropPool ==
    {{}} \cup {{key} : key \in AllKeys}
    \cup {{<<level, k>> : k \in LevelKeys[level]} : level \in Levels}
    \cup {AllKeys}

\* the places of a record that hold a sequence
SequencePlaces == {"sections", "lineItems", "comments"}

\* values that are not a mapping
BadMappings == {Null, Str(<<>>), Str(Abc), Num(5, 0), Bool(TRUE), Arr(<<>>)}

\* values that are not a sequence
BadSequences ==
    {Null, Num(5, 0), Bool(FALSE), Str(<<>>), Str(Abc), Dict(EmptyDict),
     Dict([name |-> Roof])}

NoFault == [at |-> "nowhere"]

\* one value of the wrong type, and the place it is put in
FaultPool ==
    {[at |-> level, value |-> v] : level \in Levels, v \in BadMappings}
    \cup {[at |-> place, value |-> v] : place \in SequencePlaces, v \in BadSequences}

\* the object f without the keys dropped at its level
Keep(level, f, dropped) ==
    [k \in {key \in DOMAIN f : <<level, key>> \notin dropped} |-> f[k]]

\* the value at a place, or the faulty value put there
At(place, v, fault) == IF fault.at = place THEN fault.value ELSE v

JsonComment(dropped, fault) ==
    At("comment", Dict(Keep("comment", FullComment, dropped)), fault)

JsonLineItem(dropped, fault) ==
    At("lineItem",
       Dict(Keep("lineItem",
                 FullLineItem(At("comments", Arr(<<JsonComment(dropped, fault)>>), fault)),
                 dropped)),
       fault)

JsonSection(dropped, fault) ==
    At("section",
       Dict(Keep("section",
                 FullSection(At("lineItems",
                                Arr(<<JsonLineItem(dropped, fault),
                                      JsonLineItem(dropped, fault)>>), fault)),
                 dropped)),
       fault)

JsonAddress(dropped, fault) ==
    At("address",
       Dict(Keep("address",
                 FullAddress(At("propertyInfo",
                                Dict(Keep("propertyInfo", FullPropertyInfo, dropped)), fault)),
                 dropped)),
       fault)

JsonInspection(dropped, fault) ==
    At("inspection",
       Dict(Keep("inspection",
                 FullInspection(
                     JsonAddress(dropped, fault),
                     At("clientInfo", Dict(Keep("clientInfo", FullClientInfo, dropped)), fault),
                     At("inspector", Dict(Keep("inspector", FullInspector, dropped)), fault),
                     At("schedule", Dict(Keep("schedule", FullSchedule, dropped)), fault),
                     At("sections", Arr(<<JsonSection(dropped, fault)>>), fault)),
                 dropped)),
       fault)

\* what json.load returns
JsonRecord(dropped, fault) ==
    At("root", Dict(Keep("root", [inspection |-> JsonInspection(dropped, fault)], dropped)),
       fault)

---------------------------------------------------------------------------
(* The runs of the parser alone: each getter is called once, in any order *)

Getters ==
    {"get_property_info", "get_client_info", "get_inspector_info",
     "get_inspection_schedule", "get_sections"}

ParserInit ==
    \E dropped \in DropPool, fault \in FaultPool \cup {NoFault} :
        /\ dropped = {} \/ fault = NoFault
        /\ data = JsonRecord(dropped, fault)
        /\ parsed = <<>>
        /\ variant = "report"
        /\ tz = 0
        /\ template = TemplatePool[Len(TemplatePool)]
        /\ pc = "idle"
        /\ returned = "none"
        /\ sections = <<>>
        /\ scalars = NoScalars
        /\ date_fallback = FALSE
        /\ form_data = NoData
        /\ inspection_sections = <<>>
        /\ matrix_calls = <<>>
        /\ comments_to_fill = <<>>
        /\ field_data = NoData
        /\ widgets = NoData
        /\ acroform = NoAcroForm
        /\ output = "absent"
        /\ json_file = "valid"
        /\ main_pc = "none"
        /\ main_returned = "none"

\* a getter is called and its outcome kept
Call(getter, outcome) ==
    /\ pc = "idle"
    /\ getter \notin DOMAIN parsed
    /\ parsed' = [g \in (DOMAIN parsed) \cup {getter} |->
                    IF g = getter THEN outcome ELSE parsed[g]]
    /\ UNCHANGED <<variant, data, tz, template, pc, returned, sections, scalars,
                   date_fallback, form_data, inspection_sections, matrix_calls,
                   comments_to_fill, field_data, widgets, acroform, output,
                   json_file, main_pc, main_returned>>

GetPropertyInfo == Call("get_property_info", CallGetPropertyInfo(data))
GetClientInfo == Call("get_client_info", CallGetClientInfo(data))
GetInspectorInfo == Call("get_inspector_info", CallGetInspectorInfo(data))
GetInspectionSchedule == Call("get_inspection_schedule", CallGetInspectionSchedule(data))
GetSections == Call("get_sections", CallGetSections(data))

ParserNext ==
    \/ GetPropertyInfo
    \/ GetClientInfo
    \/ GetInspectorInfo
    \/ GetInspectionSchedule
    \/ GetSections

ParserSpec == ParserInit /\ [][ParserNext]_vars

---------------------------------------------------------------------------
(* Vocabulary of the parser properties *)

IsMapping(v) == v.t = "dict"
IsSequence(v) == v.t = "arr"

\* the value a mapping holds under a key, `empty` when the key is absent
Sub(v, key, empty) == IF key \in DOMAIN v.d THEN v.d[key] ELSE empty

Absent(v, key) == key \notin DOMAIN v.d

RecordInspection == Sub(data, "inspection", Dict(EmptyDict))
RecordEntity(key) == Sub(RecordInspection, key, Dict(EmptyDict))
RecordPropertyInfo == Sub(RecordEntity("address"), "propertyInfo", Dict(EmptyDict))
RecordSections == Sub(RecordInspection, "sections", Arr(<<>>))
LineItemsOf(section) == Sub(section, "lineItems", Arr(<<>>))
CommentsOf(line_item) == Sub(line_item, "comments", Arr(<<>>))

LineItemWellFormed(li) ==
    /\ IsMapping(li)
    /\ IsSequence(CommentsOf(li))
    /\ \A k \in 1..Len(CommentsOf(li).items) : IsMapping(CommentsOf(li).items[k])

SectionWellFormed(section) ==
    /\ IsMapping(section)
    /\ IsSequence(LineItemsOf(section))
    /\ \A j \in 1..Len(LineItemsOf(section).items) :
          LineItemWellFormed(LineItemsOf(section).items[j])

\* every object of the record is a mapping and every list a sequence
WellFormedRecord ==
    /\ IsMapping(data)
    /\ IsMapping(RecordInspection)
    /\ \A key \in {"address", "clientInfo", "inspector", "schedule"} :
          IsMapping(RecordEntity(key))
    /\ IsMapping(RecordPropertyInfo)
    /\ IsSequence(RecordSections)
    /\ \A i \in 1..Len(RecordSections.items) : SectionWellFormed(RecordSections.items[i])

\* an extracted field, the key it is read from and its documented default
Entry(out, key, default) == [out |-> out, key |-> key, default |-> default]

PropertyTable ==
    <<Entry("street", "street", <<>>), Entry("city", "city", <<>>),
      Entry("state", "state", <<>>), Entry("zipcode", "zipcode", <<>>),
      Entry("full_address", "fullAddress", <<>>)>>

ClientTable ==
    <<Entry("name", "name", <<>>), Entry("email", "email", <<>>),
      Entry("phone", "phone", <<>>), Entry("user_type", "userType", <<>>)>>

InspectorTable ==
    <<Entry("id", "id", <<>>), Entry("name", "name", <<>>),
      Entry("email", "email", <<>>), Entry("phone", "phone", <<>>)>>

ScheduleTable ==
    <<Entry("date", "date", [t |-> "str", s |-> <<>>]),
      Entry("start_time", "startTime", <<>>), Entry("end_time", "endTime", <<>>)>>

SectionTable ==
    <<Entry("id", "id", <<>>), Entry("name", "name", <<>>), Entry("order", "order", 0),
      Entry("section_number", "sectionNumber", <<>>), Entry("line_items", "lineItems", <<>>)>>

LineItemTable ==
    <<Entry("id", "id", <<>>), Entry("name", "name", <<>>), Entry("title", "title", <<>>),
      Entry("order", "order", 0),
      Entry("inspection_status", "inspectionStatus", [t |-> "str", s |-> <<>>]),
      Entry("is_deficient", "isDeficient", FALSE), Entry("comments", "comments", <<>>)>>

CommentTable ==
    <<Entry("id", "id", <<>>), Entry("text", "text", [t |-> "str", s |-> <<>>]),
      Entry("type", "type", <<>>), Entry("location", "location", <<>>),
      Entry("label", "label", <<>>), Entry("is_selected", "isSelected", FALSE),
      Entry("is_flagged", "isFlagged", FALSE), Entry("comment_number", "commentNumber", <<>>),
      Entry("photos", "photos", <<>>), Entry("videos", "videos", <<>>)>>

\* every field of the table whose key the raw object lacks holds its default
Defaulted(raw, value, table) ==
    \A n \in 1..Len(table) :
        Absent(raw, table[n].key) => value[table[n].out] = table[n].default

AllCalled == DOMAIN parsed = Getters

---------------------------------------------------------------------------
(* C11: for every record that is a mapping with any subset of its keys    *)
(* absent, at any level, each of the five getters returns without raising *)
(* and each value whose key is absent is its documented default: empty    *)
(* string, False, 0 (order) or empty list.                                *)
C11_Defaults ==
    WellFormedRecord =>
        /\ \A g \in DOMAIN parsed : ~parsed[g].raised
        /\ "get_property_info" \in DOMAIN parsed =>
              LET v == parsed["get_property_info"].value
              IN  /\ Defaulted(RecordEntity("address"), v, PropertyTable)
                  /\ Absent(RecordPropertyInfo, "squareFootage") => v.square_footage = <<>>
        /\ "get_client_info" \in DOMAIN parsed =>
              Defaulted(RecordEntity("clientInfo"), parsed["get_client_info"].value, ClientTable)
        /\ "get_inspector_info" \in DOMAIN parsed =>
              Defaulted(RecordEntity("inspector"), parsed["get_inspector_info"].value,
                        InspectorTable)
        /\ "get_inspection_schedule" \in DOMAIN parsed =>
              Defaulted(RecordEntity("schedule"), parsed["get_inspection_schedule"].value,
                        ScheduleTable)
        /\ "get_sections" \in DOMAIN parsed =>
              LET v == parsed["get_sections"].value
                  raw == RecordSections.items
              IN  /\ Len(v) = Len(raw)
                  /\ \A i \in 1..Len(raw) :
                       LET lis == LineItemsOf(raw[i]).items
                       IN  /\ Defaulted(raw[i], v[i], SectionTable)
                           /\ Len(v[i].line_items) = Len(lis)
                           /\ \A j \in 1..Len(lis) :
                                LET cms == CommentsOf(lis[j]).items
                                    li == v[i].line_items[j]
                                IN  /\ Defaulted(lis[j], li, LineItemTable)
                                    /\ Len(li.comments) = Len(cms)
                                    /\ \A k \in 1..Len(cms) :
                                         Defaulted(cms[k], li.comments[k], CommentTable)

\* all five getters have returned on a record whose line items are empty
\* objects: their order is 0, they are not deficient and have no comments
C11_Witness ==
    /\ WellFormedRecord
    /\ AllCalled
    /\ \A g \in Getters : ~parsed[g].raised
    /\ Len(RecordSections.items) = 1
    /\ Len(LineItemsOf(RecordSections.items[1]).items) = 2
    /\ DOMAIN LineItemsOf(RecordSections.items[1]).items[1].d = {}
    /\ LET li == parsed["get_sections"].value[1].line_items[1]
       IN  li.order = 0 /\ ~li.is_deficient /\ li.comments = <<>> /\ li.name = <<>>

\* all five getters have returned on the empty record
C11_WitnessEmptyRecord ==
    /\ AllCalled
    /\ DOMAIN data.d = {}
    /\ \A g \in Getters : ~parsed[g].raised
    /\ parsed["get_sections"].value = <<>>
    /\ parsed["get_client_info"].value.name = <<>>

---------------------------------------------------------------------------
\* the record is malformed in a place the getter reads
MalformedFor(getter) ==
    \/ ~IsMapping(data)
    \/ ~IsMapping(RecordInspection)
    \/ getter = "get_property_info"
       /\ (~IsMapping(RecordEntity("address")) \/ ~IsMapping(RecordPropertyInfo))
    \/ getter = "get_client_info" /\ ~IsMapping(RecordEntity("clientInfo"))
    \/ getter = "get_inspector_info" /\ ~IsMapping(RecordEntity("inspector"))
    \/ getter = "get_inspection_schedule" /\ ~IsMapping(RecordEntity("schedule"))
    \/ getter = "get_sections"
       /\ (~IsSequence(RecordSections)
           \/ \E i \in 1..Len(RecordSections.items) :
                 ~SectionWellFormed(RecordSections.items[i]))

(* C18: for every malformed record (the root or a nested entity is not a   *)
(* mapping, or sections / lineItems / comments is not a sequence, an empty *)
(* mapping or empty string included), the getter that reads the malformed  *)
(* place raises instead of returning a result.                             *)
C18_MalformedRaises ==
    \A g \in DOMAIN parsed : MalformedFor(g) => parsed[g].raised

---------------------------------------------------------------------------
(* Vocabulary of the scalar-fill properties *)

\* the scalar update call has returned
ScalarDone ==
    pc \in {"matrix", "details", "flatten", "write"} \/ (pc = "done" /\ returned = "True")

ScalarNames == {NameOfClient, DateOfInspection, AddressOfInspectedProperty, NameOfInspector}

\* the extracted value that belongs to a scalar field
ScalarValue(name) ==
    CASE name = NameOfClient -> scalars.client_name
      [] name = DateOfInspection -> scalars.inspection_date
      [] name = AddressOfInspectedProperty -> scalars.property_address
      [] name = NameOfInspector -> scalars.inspector_name

(* C12: in scalar fill each of 'Name of Client', 'Date of Inspection',     *)
(* 'Address of Inspected Property', 'Name of Inspector' is written with    *)
(* its extracted value iff the name is in the field catalog and the value  *)
(* is non-empty; an absent field or an empty value writes nothing for that *)
(* field, is not an error, and does not stop the other three.              *)
C12_ScalarFill ==
    /\ ScalarDone =>
          /\ DOMAIN form_data \subseteq ScalarNames
          /\ \A name \in ScalarNames :
                /\ name \in DOMAIN form_data
                   <=> (name \in CatalogNames /\ ScalarValue(name) # <<>>)
                /\ name \in DOMAIN form_data =>
                      /\ form_data[name] = [t |-> "str", s |-> ScalarValue(name)]
                      /\ widgets[name].V = ScalarValue(name)
                /\ (name \in CatalogNames /\ name \notin DOMAIN form_data)
                   => widgets[name].V = NoValue
    /\ (pc = "done" /\ returned = "False")
       => (~template.exists \/ Len(template.fields) = 0)

\* the catalog lacks 'Name of Inspector' while the inspector's name is
\* extracted, and the other three fields are written
C12_Witness ==
    /\ pc = "done"
    /\ returned = "True"
    /\ NameOfInspector \notin CatalogNames
    /\ scalars.inspector_name # <<>>
    /\ DOMAIN form_data = ScalarNames \ {NameOfInspector}
    /\ output.widgets[NameOfClient].V = scalars.client_name

\* the client's name is empty while its field is in the catalog, and the
\* date is written
C12_WitnessEmptyValue ==
    /\ pc = "done"
    /\ returned = "True"
    /\ NameOfClient \in CatalogNames
    /\ scalars.client_name = <<>>
    /\ NameOfClient \notin DOMAIN form_data
    /\ output.widgets[NameOfClient].V = NoValue
    /\ output.widgets[DateOfInspection].V = scalars.inspection_date

---------------------------------------------------------------------------
(* C13: if the template file is absent, or the template exposes zero       *)
(* fillable fields, generate_report returns False, performs no field write *)
(* and never opens or creates the output file.                             *)
C13_LoadFailure ==
    (~template.exists \/ Len(template.fields) = 0) =>
        /\ pc \in {"start", "extract", "fields", "done"}
        /\ pc = "done" => returned = "False"
        /\ returned # "True"
        /\ form_data = NoData /\ matrix_calls = <<>> /\ field_data = NoData
        /\ \A name \in DOMAIN widgets : widgets[name].V = NoValue
        /\ output = "absent"

\* a run on a missing template has returned False
C13_Witness ==
    /\ ~template.exists
    /\ pc = "done"
    /\ returned = "False"
    /\ output = "absent"

\* a run on a template without fields has returned False
C13_WitnessNoFields ==
    /\ template.exists
    /\ Len(template.fields) = 0
    /\ pc = "done"
    /\ returned = "False"
    /\ output = "absent"

---------------------------------------------------------------------------
(* The runs of generate_report with faults: records whose statuses or     *)
(* comment texts are not strings, and a write of the document that fails  *)

\* sections of the fault runs: two well-formed ones, one whose status is a
\* number, one with a comment whose text is null, one whose status is null
FaultySectionPool ==
    <<Sc(Roof, 3, <<Li(StatusI, FALSE, <<Cm(MissingShingles, Info, <<>>)>>)>>),
      Sc(SectionA, 1, <<Li(StatusD, TRUE, <<Cm(CrackedTile, Defect, <<>>)>>)>>),
      Sc(Walls, 9, <<[inspectionStatus |-> Num(5, 0), isDeficient |-> FALSE,
                      comments |-> <<Cm(G1, Info, <<>>)>>]>>),
      Sc(Doors, 5, <<Li(StatusNP, FALSE,
                        <<[text |-> Null, type |-> Defect, location |-> Hall]>>)>>),
      Sc(Attic, 0, <<[inspectionStatus |-> Null, isDeficient |-> FALSE,
                      comments |-> <<>>]>>)>>

\* the largest number of sections of a record of the fault runs
MaxFaultSections == 3

\* the records of the fault runs: every list of at most MaxFaultSections
\* sections of the pool
FaultRecords ==
    UNION {[1..n -> 1..Len(FaultySectionPool)] : n \in 0..MaxFaultSections}

FaultRecord(choice) ==
    [x \in {"inspection"} |->
        Merge(Merge(Header(TRUE), SchedulePool[1]),
              [y \in {"sections"} |->
                  [k \in 1..Len(choice) |-> FaultySectionPool[choice[k]]]])]

\* the templates of the fault runs: the checkboxes lie on the page
\* report.py updates
FaultTemplates == <<TemplatePool[2], TemplatePool[3]>>

FaultInit ==
    \E v \in Variants, choice \in FaultRecords, t \in 1..Len(FaultTemplates) :
        /\ variant = v
        /\ data = FaultRecord(choice)
        /\ tz = TzPool[1]
        /\ template = FaultTemplates[t]
        /\ pc = "start"
        /\ returned = "none"
        /\ sections = <<>>
        /\ scalars = NoScalars
        /\ date_fallback = FALSE
        /\ form_data = NoData
        /\ inspection_sections = <<>>
        /\ matrix_calls = <<>>
        /\ comments_to_fill = <<>>
        /\ field_data = NoData
        /\ widgets = NoData
        /\ acroform = NoAcroForm
        /\ output = "absent"
        /\ parsed = <<>>
        /\ json_file = "valid"
        /\ main_pc = "none"
        /\ main_returned = "none"

\* open(output_path, 'wb') has created or truncated the file and
\* writer.write raises: the handler of generate_report returns False
WriteFails ==
    /\ pc = "write"
    /\ output' = "partial"
    /\ returned' = "False"
    /\ pc' = "done"
    /\ UNCHANGED <<outer, variant, data, tz, template, sections, scalars, date_fallback,
                   form_data, inspection_sections, matrix_calls, comments_to_fill,
                   field_data, widgets, acroform>>

FaultNext ==
    \/ CheckTemplate
    \/ ExtractData
    \/ CheckFields
    \/ ScalarFill
    \/ FillInspectionMatrix
    \/ FillInspectionDetails
    \/ FlattenAndRemoveAcroForm
    \/ WriteOutput
    \/ WriteFails

FaultSpec == FaultInit /\ [][FaultNext]_vars

---------------------------------------------------------------------------
(* Vocabulary of the failure properties *)

\* the first status of the section is a truthy value that is not a string:
\* reading it as a status raises
BadStatus(section) ==
    /\ Len(section.line_items) >= 1
    /\ StatusCheckRaises(section.line_items[1].inspection_status)

\* some comment of the section has a text that is not a string
BadText(section) ==
    \E j \in 1..Len(section.line_items) :
        \E k \in 1..Len(section.line_items[j].comments) :
            CommentRaises(section.line_items[j].comments[k])

MatrixFaulty == \E k \in 1..Len(sections) : BadStatus(sections[k])
DetailsFaulty == \E k \in 1..Len(sections) : BadText(sections[k])

\* the sections that qualify for the matrix, the bad ones left aside
GoodQualifying ==
    SelectSeq(sections,
              LAMBDA section :
                  /\ Len(section.line_items) >= 1
                  /\ section.line_items[1].inspection_status.t = "str"
                  /\ Strip(section.line_items[1].inspection_status.s) # <<>>)

\* the rendered comments of the sections without a bad text
GoodComments ==
    UNION {UNION {{<<i, j, k>> : k \in 1..Len(sections[i].line_items[j].comments)} :
                    j \in 1..Len(sections[i].line_items)} :
             i \in {n \in 1..Len(sections) : ~BadText(sections[n])}}

\* the template could be loaded
Loaded == template.exists /\ Len(template.fields) > 0

---------------------------------------------------------------------------
(* C14: whenever generate_report returns False, for any reason, an        *)
(* exception while filling or while writing the document included, no     *)
(* output file, complete or partial, has been created or modified.        *)
C14_NoOutputOnFailure ==
    returned = "False" => output = "absent"

(* C15: an error raised inside matrix fill, narrative fill or appearance  *)
(* repair does not abort the run: it is caught inside that sub-step,      *)
(* every later stage still executes, the output file is written and       *)
(* generate_report returns True.                                          *)
C15_SubStepErrorsContained ==
    /\ (Loaded /\ pc = "done" /\ returned = "False") => output = "partial"
    /\ (Loaded /\ pc = "done" /\ returned = "True")
       => /\ output.widgets = widgets
          /\ output.acroform = acroform
    /\ (Loaded /\ pc \in {"matrix", "details", "flatten", "write"}) => returned = "none"
    /\ (DetailsDone /\ MatrixFaulty /\ ~DetailsFaulty)
       => /\ Len(comments_to_fill) = Cardinality(Kept)
          /\ Cardinality(DOMAIN field_data) = Assigned
          /\ \A k \in 1..Assigned : widgets[Eligible[k]].V = Cut(comments_to_fill[k])
    /\ (pc = "done" /\ returned = "True")
       => \A name \in DOMAIN form_data : output.widgets[name].V = form_data[name].s

\* matrix fill and narrative fill have both raised, and the run has written
\* the document and returned True
C15_Witness ==
    /\ pc = "done"
    /\ returned = "True"
    /\ MatrixFaulty
    /\ DetailsFaulty
    /\ matrix_calls = <<>>
    /\ field_data = NoData
    /\ output.widgets[NameOfClient].V = scalars.client_name

\* matrix fill has raised, narrative fill has filled a text field, the
\* flattening of working-1.py has raised on it, and the run has written
\* the document and returned True
C15_WitnessRepair ==
    /\ variant = "working1"
    /\ pc = "done"
    /\ returned = "True"
    /\ MatrixFaulty
    /\ ~DetailsFaulty
    /\ Assigned >= 1
    /\ output.widgets[Eligible[1]].V # NoValue
    /\ output.widgets[Eligible[1]].Ff = 0

(* C16: in every fill stage a failure on one section or field is isolated *)
(* to that item: the remaining sections and fields are still processed    *)
(* and written, so a section whose status is not a string cannot prevent  *)
(* the checkboxes of the other qualifying sections from being written,    *)
(* nor a bad comment the other comments.                                  *)
C16_ItemIsolation ==
    /\ MatrixDone =>
          \A i \in 0..(Len(GoodQualifying) - 1) :
              LET status == GoodQualifying[i + 1].line_items[1].inspection_status.s
              IN  (i < 12 /\ status \in Recognised
                   /\ CheckBoxName(4 * i + Offset(status)) \in CatalogNames)
                  => CheckBoxName(4 * i + Offset(status)) \in AllWritten
    /\ (DetailsDone /\ GoodComments # {} /\ Len(Eligible) >= 1)
       => field_data # NoData

---------------------------------------------------------------------------
(* main *)

\* what inspection.json holds when it can be parsed
MainRecords ==
    <<Record(TRUE, 1, 0, 1, 0), Record(TRUE, 1, 1, 1, 0), Record(FALSE, 1, 2, 1, 0)>>

JsonFiles == {"missing", "invalid", "valid"}

MainInit ==
    \E v \in Variants, j \in JsonFiles, t \in 1..Len(TemplatePool) :
        /\ variant = v
        /\ json_file = j
        /\ template = TemplatePool[t]
        /\ main_pc = "start"
        /\ main_returned = "none"
        /\ data = NoData
        /\ parsed = <<>>
        /\ tz = TzPool[1]
        /\ pc = "idle"
        /\ returned = "none"
        /\ sections = <<>>
        /\ scalars = NoScalars
        /\ date_fallback = FALSE
        /\ form_data = NoData
        /\ inspection_sections = <<>>
        /\ matrix_calls = <<>>
        /\ comments_to_fill = <<>>
        /\ field_data = NoData
        /\ widgets = NoData
        /\ acroform = NoAcroForm
        /\ output = "absent"

\* if not os.path.exists(json_file): return False
MainCheckJson ==
    /\ main_pc = "start"
    /\ IF json_file = "missing"
       THEN main_pc' = "done" /\ main_returned' = "False"
       ELSE main_pc' = "check_template" /\ main_returned' = main_returned
    /\ UNCHANGED <<parsed, json_file, variant, data, tz, template, pc, returned, sections,
                   scalars, date_fallback, form_data, inspection_sections, matrix_calls,
                   comments_to_fill, field_data, widgets, acroform, output>>

\* mutant: the template is not looked for
MainCheckTemplate_NoTest ==
    /\ main_pc = "check_template"
    /\ main_pc' = "parse"
    /\ UNCHANGED <<parsed, json_file, main_returned, variant, data, tz, template, pc,
                   returned, sections, scalars, date_fallback, form_data,
                   inspection_sections, matrix_calls, comments_to_fill, field_data,
                   widgets, acroform, output>>

\* if not os.path.exists(template_file): return False
MainCheckTemplate ==
    /\ main_pc = "check_template"
    /\ IF template.exists
       THEN main_pc' = "parse" /\ main_returned' = main_returned
       ELSE main_pc' = "done" /\ main_returned' = "False"
    /\ UNCHANGED <<parsed, json_file, variant, data, tz, template, pc, returned, sections,
                   scalars, date_fallback, form_data, inspection_sections, matrix_calls,
                   comments_to_fill, field_data, widgets, acroform, output>>

\* parser = InspectionDataParser(json_file): _load_json raises ValueError on
\* a file that is not JSON, and the handler of main returns False
MainLoadJson ==
    /\ main_pc = "parse"
    /\ IF json_file = "invalid"
       THEN /\ main_pc' = "done"
            /\ main_returned' = "False"
            /\ data' = data
       ELSE /\ main_pc' = "verify"
            /\ main_returned' = main_returned
            /\ \E k \in 1..Len(MainRecords) : data' = MainRecords[k]
    /\ UNCHANGED <<parsed, json_file, variant, tz, template, pc, returned, sections,
                   scalars, date_fallback, form_data, inspection_sections, matrix_calls,
                   comments_to_fill, field_data, widgets, acroform, output>>

\* property_info = parser.get_property_info(); sections = parser.get_sections();
\* the counts are printed; form_filler.generate_report(output_file) is entered
MainVerify ==
    /\ main_pc = "verify"
    /\ parsed' = [property_info |-> get_property_info(data),
                  sections |-> get_sections(data)]
    /\ main_pc' = "generate"
    /\ pc' = "start"
    /\ UNCHANGED <<json_file, main_returned, variant, data, tz, template, returned,
                   sections, scalars, date_fallback, form_data, inspection_sections,
                   matrix_calls, comments_to_fill, field_data, widgets, acroform, output>>

\* success = form_filler.generate_report(output_file); return True if success
\* else False
MainFinish ==
    /\ main_pc = "generate"
    /\ pc = "done"
    /\ main_pc' = "done"
    /\ main_returned' = returned
    /\ UNCHANGED <<parsed, json_file, variant, data, tz, template, pc, returned, sections,
                   scalars, date_fallback, form_data, inspection_sections, matrix_calls,
                   comments_to_fill, field_data, widgets, acroform, output>>

MainNext ==
    \/ MainCheckJson
    \/ MainCheckTemplate
    \/ MainLoadJson
    \/ MainVerify
    \/ CheckTemplate
    \/ ExtractData
    \/ CheckFields
    \/ ScalarFill
    \/ FillInspectionMatrix
    \/ FillInspectionDetails
    \/ FlattenAndRemoveAcroForm
    \/ WriteOutput
    \/ WriteFails
    \/ MainFinish

MainSpec == MainInit /\ [][MainNext]_vars

\* one of the two input files is missing or the record file is not JSON
InputsUnusable == json_file \in {"missing", "invalid"} \/ ~template.exists

(* C17: if the inspection record file or the template file is missing at  *)
(* its fixed path, or the record file cannot be parsed as JSON, main       *)
(* returns False without running the populator and without creating an    *)
(* output file.                                                           *)
C17_MissingInputs ==
    InputsUnusable =>
        /\ main_pc \in {"start", "check_template", "parse", "done"}
        /\ pc = "idle"
        /\ returned = "none"
        /\ output = "absent"
        /\ main_pc = "done" => main_returned = "False"

\* the record file exists and is not JSON, the template exists, and main
\* has returned False
C17_Witness ==
    /\ json_file = "invalid"
    /\ template.exists
    /\ main_pc = "done"
    /\ main_returned = "False"
    /\ pc = "idle"

\* the record file is missing and main has returned False
C17_WitnessNoRecord ==
    /\ json_file = "missing"
    /\ main_pc = "done"
    /\ main_returned = "False"

\* the record file is valid, the template is missing and main has
\* returned False
C17_WitnessNoTemplate ==
    /\ json_file = "valid"
    /\ ~template.exists
    /\ main_pc = "done"
    /\ main_returned = "False"

\* with both files usable main runs the populator and returns True
C17_WitnessUsable ==
    /\ ~InputsUnusable
    /\ main_pc = "done"
    /\ main_returned = "True"
    /\ returned = "True"

---------------------------------------------------------------------------
(* Vocabulary of the end-to-end checkbox properties *)

\* the run has written the document and returned True
Written == pc = "done" /\ returned = "True"

\* the checkbox names matrix fill aims at: one per qualifying section among
\* the first 12 with a recognised status, when the catalog has the name
Targets ==
    {CheckBoxName(4 * i + Offset(StatusOf(i))) :
        i \in {j \in 0..(Len(Qualifying) - 1) : j < 12 /\ StatusOf(j) \in Recognised}}
    \cap CatalogNames

\* the button widgets of a written document that hold a value
Marked(doc) ==
    {name \in DOMAIN doc.widgets :
        doc.widgets[name].FT = "/Btn" /\ doc.widgets[name].V # NoValue}

\* the entry of the catalog with a given name
CatalogField(name) ==
    template.fields[CHOOSE k \in 1..Len(template.fields) : template.fields[k].name = name]

\* possible_values of _determine_checkbox_export_value
AliasList ==
    <<Yes, <<"O", "n">>, <<"1">>, <<"T", "r", "u", "e">>, <<"X">>,
      <<"C", "h", "e", "c", "k", "e", "d">>>>

\* an entry of the alias list, as a string or as a pdf name
AliasNames ==
    {AliasList[k] : k \in 1..Len(AliasList)}
    \cup {<<"/">> \o AliasList[k] : k \in 1..Len(AliasList)}

\* the checked-state keys a field admits: the keys of its own appearance
\* catalog other than /Off, or the alias list when it defines none
CheckedKeys(name) ==
    IF CatalogField(name).AP # {} THEN CatalogField(name).AP \ {SlashOff}
    ELSE AliasNames

---------------------------------------------------------------------------
(* C19: end to end, for every qualifying section among the first 12 with  *)
(* a recognised status whose target checkbox name is in the template's    *)
(* field catalog, that checkbox holds a checked value in the written      *)
(* output document, on whichever page of the template its widget lies;    *)
(* and a section with zero line items contributes no checkbox write.      *)
C19_CheckedInOutput ==
    Written =>
        /\ \A name \in Targets : name \in Marked(output)
        /\ Marked(output) \subseteq Targets

(* C20: when a checkbox is marked, the checked-state key used for its     *)
(* value and displayed variant is a key present in that field's own       *)
(* appearance catalog; an entry of the alias list is used only when the   *)
(* field defines no appearance catalog, and no value outside the catalog  *)
(* keys and the alias list is ever written.                               *)
C20_CheckedKeyFromCatalog ==
    Written =>
        \A name \in Marked(output) :
            /\ output.widgets[name].V \in CheckedKeys(name)
            /\ output.widgets[name].AS \in CheckedKeys(name)

---------------------------------------------------------------------------
(* Runs on templates that hold values *)

\* templates whose checkboxes hold /Off before the run: one page or two,
\* with and without scalar fields
RepairTemplates ==
    <<PresetOff(Template(TRUE, TRUE, 2 * MatrixStride, 2, 2)),
      PresetOff(Template(TRUE, FALSE, MatrixStride, 1, 1))>>

\* the largest number of sections of a record of these runs
MaxRepairSections == 3

RepairInit ==
    \E v \in Variants, header \in BOOLEAN, n \in 0..MaxRepairSections,
       b \in 0..(NShapes - 1), t \in 1..Len(RepairTemplates) :
        /\ variant = v
        /\ data = Record(header, 1, n, 1, b)
        /\ tz = TzPool[1]
        /\ template = RepairTemplates[t]
        /\ pc = "start"
        /\ returned = "none"
        /\ sections = <<>>
        /\ scalars = NoScalars
        /\ date_fallback = FALSE
        /\ form_data = NoData
        /\ inspection_sections = <<>>
        /\ matrix_calls = <<>>
        /\ comments_to_fill = <<>>
        /\ field_data = NoData
        /\ widgets = NoData
        /\ acroform = NoAcroForm
        /\ output = "absent"
        /\ parsed = <<>>
        /\ json_file = "valid"
        /\ main_pc = "none"
        /\ main_returned = "none"

RepairSpec == RepairInit /\ [][Next]_vars

\* the checkbox widgets of a document that hold a value
ValuedCheckboxes(doc) ==
    {name \in DOMAIN doc.widgets :
        doc.widgets[name].FT = "/Btn" /\ doc.widgets[name].V # NoValue}

Interactive(doc) ==
    /\ doc.acroform.present
    /\ \A name \in DOMAIN doc.widgets : doc.widgets[name].Ff = 0

(* C22: stripping the fields' interactive metadata (flattening, removal   *)
(* of the field container included) is an opt-in final step: it happens  *)
(* only when the caller requests it. generate_report(output_path) takes   *)
(* no such request, so every run is one that does not request it, and     *)
(* must write an output whose fields are filled and still interactive.    *)
C22_FlattenIsOptIn ==
    Written =>
        /\ Interactive(output)
        /\ \A name \in DOMAIN form_data : output.widgets[name].V = form_data[name].s

---------------------------------------------------------------------------
(* Vocabulary of the ordering properties *)

\* the raw sections of the record, and the raw line items and comments
RawSectionList == Get(Get(data, "inspection", EmptyDict), "sections", <<>>)
RawLineItems(i) == Get(RawSectionList[i], "lineItems", <<>>)
RawComments(i, j) == Get(RawLineItems(i)[j], "comments", <<>>)

(* C23: get_sections returns exactly one entry per input section in input *)
(* order, each with one line item per input line item in input order,     *)
(* each with one comment per input comment in input order; the 'order'    *)
(* values are copied and never used to re-sort, filter or deduplicate.    *)
C23_InputOrderKept ==
    ExtractDone =>
        /\ Len(sections) = Len(RawSectionList)
        /\ \A i \in 1..Len(sections) :
              /\ sections[i].name = Get(RawSectionList[i], "name", <<>>)
              /\ sections[i].order = Get(RawSectionList[i], "order", 0)
              /\ Len(sections[i].line_items) = Len(RawLineItems(i))
              /\ \A j \in 1..Len(RawLineItems(i)) :
                    /\ sections[i].line_items[j].inspection_status
                         = Get(RawLineItems(i)[j], "inspectionStatus", Str(<<>>))
                    /\ sections[i].line_items[j].order = Get(RawLineItems(i)[j], "order", 0)
                    /\ Len(sections[i].line_items[j].comments) = Len(RawComments(i, j))
                    /\ \A k \in 1..Len(RawComments(i, j)) :
                          sections[i].line_items[j].comments[k].text
                            = Get(RawComments(i, j)[k], "text", Str(<<>>))

\* the sections have been extracted from a record whose 'order' values
\* decrease and repeat, with a section of two line items and three comments
C23_Witness ==
    /\ ExtractDone
    /\ Len(sections) >= 11
    /\ sections[1].order > sections[2].order
    /\ sections[1].name = sections[11].name
    /\ Len(sections[4].line_items) = 2
    /\ Len(sections[4].line_items[1].comments) = 3

---------------------------------------------------------------------------
(* Vocabulary of the stage order *)

\* the position of a stage in generate_report
StageRank(p) ==
    CASE p = "start" -> 0
      [] p = "extract" -> 1
      [] p = "fields" -> 2
      [] p = "scalar" -> 3
      [] p = "matrix" -> 4
      [] p = "details" -> 5
      [] p = "flatten" -> 6
      [] p = "write" -> 7
      [] p = "done" -> 8

(* C24: in every run of generate_report the stages occur in the order     *)
(* load, scalar fill, matrix fill, narrative fill, appearance repair,     *)
(* output write, each at most once and never revisited; the output file   *)
(* is opened only after every fill stage has finished and is written      *)
(* once, and no field write happens after the output is written.          *)
C24_StageOrder ==
    [][/\ StageRank(pc') > StageRank(pc)
       /\ returned' = "True" => pc = "write"
       /\ pc # "write" => UNCHANGED output
       /\ pc = "write" => /\ pc' = "done"
                          /\ UNCHANGED <<widgets, acroform>>
       /\ pc # "scalar" => UNCHANGED form_data
       /\ pc # "matrix" => UNCHANGED <<inspection_sections, matrix_calls>>
       /\ pc # "details" => UNCHANGED <<comments_to_fill, field_data>>
       /\ widgets' # widgets => pc \in {"fields", "scalar", "matrix", "details", "flatten"}
       /\ acroform' # acroform => pc \in {"scalar", "matrix", "details", "flatten"}]_vars

\* a run of working-1.py in which every stage has written something has
\* ended with the document written
C24_Witness ==
    /\ Written
    /\ variant = "working1"
    /\ form_data # NoData
    /\ matrix_calls # <<>>
    /\ field_data # NoData
    /\ \E name \in DOMAIN widgets : widgets[name].Ff = 1
    /\ output.widgets = widgets

---------------------------------------------------------------------------
(* Runs on records whose sections all qualify *)

\* raw sections with a first status: recognised codes, an unknown code and
\* a recognised code with a leading blank
RowPool ==
    <<SectionPool[1], SectionPool[7], SectionPool[10], SectionPool[2], SectionPool[4]>>

\* the largest number of sections of a record of these runs
MaxRowSections == 14
\* the largest step between the pool positions of neighbouring sections
MaxRowStride == 2

RowRecord(n, a, b) ==
    [x \in {"inspection"} |->
        [y \in {"sections"} |->
            [k \in 1..n |-> RowPool[((b + a * (k - 1)) % Len(RowPool)) + 1]]]]

RowTemplates == <<TemplatePool[1], TemplatePool[2], TemplatePool[5]>>

RowInit ==
    \E v \in Variants, n \in 0..MaxRowSections, a \in 0..MaxRowStride,
       b \in 0..(Len(RowPool) - 1), t \in 1..Len(RowTemplates) :
        /\ variant = v
        /\ data = RowRecord(n, a, b)
        /\ tz = TzPool[1]
        /\ template = RowTemplates[t]
        /\ pc = "start"
        /\ returned = "none"
        /\ sections = <<>>
        /\ scalars = NoScalars
        /\ date_fallback = FALSE
        /\ form_data = NoData
        /\ inspection_sections = <<>>
        /\ matrix_calls = <<>>
        /\ comments_to_fill = <<>>
        /\ field_data = NoData
        /\ widgets = NoData
        /\ acroform = NoAcroForm
        /\ output = "absent"
        /\ parsed = <<>>
        /\ json_file = "valid"
        /\ main_pc = "none"
        /\ main_returned = "none"

RowSpec == RowInit /\ [][Next]_vars

\* the qualifying sections whose status is no recognised code
Unrecognised == {i \in 0..(Len(Qualifying) - 1) : StatusOf(i) \notin Recognised}

(* C25: a qualifying section whose status is not exactly one of 'I',      *)
(* 'NI', 'NP', 'D' (a recognised code with surrounding whitespace         *)
(* included) writes no checkbox but still occupies its matrix row: it     *)
(* counts toward the limit of 12 and every later qualifying section       *)
(* keeps the base index 4*i of its position in the qualifying list.       *)
C25_UnrecognisedKeepsRow ==
    MatrixDone =>
        /\ [k \in 1..Len(inspection_sections) |-> inspection_sections[k].status.s]
             = [k \in 1..Len(Qualifying) |-> StatusOf(k - 1)]
        /\ \A i \in 0..(Len(Qualifying) - 1) :
              IF i \in Unrecognised \/ i >= 12
              THEN WrittenBy(i) = {}
              ELSE WrittenBy(i) = {CheckBoxName(4 * i + Offset(StatusOf(i)))} \cap CatalogNames

\* matrix fill has run on a record with 13 qualifying sections or more, an
\* unknown code and a code with a leading blank among the first 12: a later
\* section has written the checkbox of its own row and the 13th nothing
C25_Witness ==
    /\ MatrixDone
    /\ Len(Qualifying) >= 13
    /\ StatusOf(0) = <<"X">>
    /\ StatusOf(1) = <<" ", "I">>
    /\ StatusOf(2) = StatusD
    /\ WrittenBy(2) = {CheckBoxName(11)}
    /\ StatusOf(12) \in Recognised
    /\ CheckBoxName(48 + Offset(StatusOf(12))) \in CatalogNames
    /\ WrittenBy(12) = {}

---------------------------------------------------------------------------
(* Vocabulary of the blank comments *)

\* the comments whose text is empty or only whitespace
Blank == CommentPositions \ Kept

\* the entries of comments_to_fill that render a given comment
EntriesOf(p) == {r \in 1..Len(comments_to_fill) : comments_to_fill[r] = Rendered(p)}

\* the smaller of two numbers
Least(m, n) == IF m < n THEN m ELSE n

(* C26: a comment whose text is empty or only whitespace is never         *)
(* rendered and never consumes a text field, whatever its type tag; the   *)
(* number of rendered comments equals the number of comments with         *)
(* non-blank text, and the rendered text is the comment text with leading *)
(* and trailing whitespace removed.                                       *)
C26_BlankCommentsDropped ==
    DetailsDone =>
        /\ Len(comments_to_fill) = Cardinality(Kept)
        /\ \A r \in 1..Len(comments_to_fill) :
              \E p \in Kept :
                  /\ comments_to_fill[r] = Rendered(p)
                  /\ SubSeq(comments_to_fill[r],
                            Len(comments_to_fill[r]) - Len(Strip(CommentAt(p).text.s)) + 1,
                            Len(comments_to_fill[r])) = Strip(CommentAt(p).text.s)
        /\ \A p \in Kept : EntriesOf(p) # {}
        /\ Cardinality(DOMAIN field_data) = Least(Cardinality(Kept), Len(Eligible))
        /\ Kept = {} => field_data = NoData

\* the only comment of the record is a 'defect' comment of two blanks:
\* nothing is rendered and no text field is written although fields are free
C26_Witness ==
    /\ DetailsDone
    /\ CommentPositions = {<<1, 1, 1>>}
    /\ IsDeficiency(<<1, 1, 1>>)
    /\ CommentAt(<<1, 1, 1>>).text = Str(<<" ", " ">>)
    /\ Len(Eligible) >= 1
    /\ comments_to_fill = <<>>
    /\ field_data = NoData

\* a comment ' G1\n' is rendered as 'Walls: G1'
C26_WitnessStripped ==
    /\ DetailsDone
    /\ <<1, 1, 1>> \in CommentPositions
    /\ CommentAt(<<1, 1, 1>>).text = Str(<<" ">> \o G1 \o <<"\n">>)
    /\ sections[1].name = Walls
    /\ \E r \in 1..Len(comments_to_fill) : comments_to_fill[r] = WallsG1

---------------------------------------------------------------------------
(* Vocabulary of the comparison of the two source files *)

\* the source file that is not running
OtherVariant == IF variant = "report" THEN "working1" ELSE "report"

\* what _fill_inspection_matrix of the other file selects on the same
\* sections and the same catalog (the selection reads no widget)
OtherMatrix == fill_inspection_matrix(OtherVariant, template, sections, NoData)

\* the positions and field names of a list of update calls
Selected(calls) == {<<calls[k].i, DOMAIN calls[k].data>> : k \in 1..Len(calls)}

(* C27: the two source files agree on the data mapping: for every record  *)
(* and every field catalog whose checkbox names are exactly of the form   *)
(* CheckBox1[n], report.py and working-1.py select the same scalar fields *)
(* and values, the same target checkbox names and the same assignment of  *)
(* comments to text fields.                                               *)
C27_VariantsAgree ==
    /\ ScalarDone => form_data = BuildFormData(template, scalars)
    /\ MatrixDone =>
          LET other == OtherMatrix
          IN  /\ other.inspection_sections = inspection_sections
              /\ Selected(other.calls) = Selected(matrix_calls)
    /\ DetailsDone =>
          /\ field_data = fill_inspection_details(template, sections, NoData).field_data
          /\ \A name \in DOMAIN field_data : widgets[name].V = field_data[name].s

\* working-1.py has filled scalar fields, checkboxes and text fields; the
\* other file writes the same checkbox names with another value
C27_Witness ==
    /\ DetailsDone
    /\ variant = "working1"
    /\ form_data # NoData
    /\ field_data # NoData
    /\ Len(matrix_calls) >= 2
    /\ LET other == OtherMatrix
       IN  /\ Len(other.calls) >= 1
           /\ DOMAIN other.calls[1].data = DOMAIN matrix_calls[1].data
           /\ \A name \in DOMAIN matrix_calls[1].data :
                 /\ matrix_calls[1].data[name] = Str(Yes)
                 /\ other.calls[1].data[name] = Bool(TRUE)

---------------------------------------------------------------------------
(* Vocabulary of the scalar values *)

\* the record's inspection and the three scalar values it holds
RawInspection == Get(data, "inspection", EmptyDict)
RawClientName == Get(Get(RawInspection, "clientInfo", EmptyDict), "name", <<>>)
RawFullAddress == Get(Get(RawInspection, "address", EmptyDict), "fullAddress", <<>>)
RawInspectorName == Get(Get(RawInspection, "inspector", EmptyDict), "name", <<>>)

(* C28: the derived inspection date is never empty (a converted date or   *)
(* the fallback literal), so 'Date of Inspection' is written in every run *)
(* whose template catalog contains that field, runs whose record has no   *)
(* schedule included; it is the only scalar field that can be written     *)
(* with a value not present in the input record.                          *)
C28_DateAlwaysWritten ==
    ScalarDone =>
        /\ scalars.inspection_date # <<>>
        /\ DateOfInspection \in CatalogNames
           => /\ DateOfInspection \in DOMAIN form_data
              /\ form_data[DateOfInspection] = Str(scalars.inspection_date)
              /\ widgets[DateOfInspection].V = scalars.inspection_date
        /\ NameOfClient \in DOMAIN form_data
           => form_data[NameOfClient] = Str(RawClientName)
        /\ AddressOfInspectedProperty \in DOMAIN form_data
           => form_data[AddressOfInspectedProperty] = Str(RawFullAddress)
        /\ NameOfInspector \in DOMAIN form_data
           => form_data[NameOfInspector] = Str(RawInspectorName)

\* a record without schedule, client, address and inspector: the date is
\* the only scalar field written, with the fallback literal
C28_Witness ==
    /\ ScalarDone
    /\ "schedule" \notin DOMAIN RawInspection
    /\ RawClientName = <<>>
    /\ DOMAIN form_data = {DateOfInspection}
    /\ form_data[DateOfInspection] = Str(FallbackDate)
    /\ widgets[DateOfInspection].V = FallbackDate

---------------------------------------------------------------------------
(* C29: in working-1.py every successful run writes a document that has   *)
(* no field container /AcroForm: the NeedAppearances flag set on the      *)
(* container earlier in the run is removed together with it before the    *)
(* write, so the written output never carries NeedAppearances.            *)
C29_NoFieldContainerWritten ==
    variant = "working1" =>
        /\ pc = "flatten" => (acroform.present /\ acroform.NeedAppearances)
        /\ pc = "write" => acroform = NoAcroForm
        /\ Written => (~output.acroform.present /\ ~output.acroform.NeedAppearances)

\* working-1.py has filled scalar fields, which set NeedAppearances on the
\* field container, and has written a document without the container
C29_Witness ==
    /\ Written
    /\ variant = "working1"
    /\ form_data # NoData
    /\ matrix_calls # <<>>
    /\ output.acroform = NoAcroForm

---------------------------------------------------------------------------
(* Vocabulary of the stages' field names *)

\* the names matrix fill of report.py can build: CheckBox1[n]
MatrixNames == {CheckBoxName(n) : n \in 0..(MaxChecks + 3)}

\* no scalar name and no CheckBox1[n] passes the filter of the text fields
NamesDisjoint ==
    /\ ScalarNames \cap MatrixNames = {}
    /\ \A name \in ScalarNames \cup MatrixNames : ~IsTextField(name)

(* C30: in report.py the three fill stages write pairwise disjoint sets   *)
(* of field names: the four scalar names, the names CheckBox1[n] and the  *)
(* names selected as text fields never overlap, so no field written by    *)
(* one stage is overwritten by a later stage of the same run.             *)
C30_StagesDisjoint ==
    (variant = "report" /\ DetailsDone) =>
        /\ NamesDisjoint
        /\ DOMAIN form_data \subseteq ScalarNames
        /\ AllWritten \subseteq MatrixNames
        /\ \A name \in DOMAIN field_data : IsTextField(name)
        /\ DOMAIN form_data \cap AllWritten = {}
        /\ DOMAIN form_data \cap DOMAIN field_data = {}
        /\ AllWritten \cap DOMAIN field_data = {}
        /\ \A name \in DOMAIN form_data : widgets[name].V = form_data[name].s
        /\ \A name \in DOMAIN field_data : widgets[name].V = field_data[name].s
        /\ \A name \in AllWritten : widgets[name].FT = "/Btn"

\* a run of report.py in which each of the three stages has written fields
C30_Witness ==
    /\ variant = "report"
    /\ DetailsDone
    /\ Cardinality(DOMAIN form_data) = 4
    /\ Cardinality(AllWritten) >= 2
    /\ Cardinality(DOMAIN field_data) >= 2

====
